---------------------------- MODULE Spec2Model ----------------------------
(***************************************************************************)
(* Model of the MCP client adapters of llm-classroom (src/3.MCP).          *)
(*                                                                         *)
(*   SpecNames    - the tool registry and build_openai_tools_spec /        *)
(*                  resolve_function_name (same rule in MCPAdapter,        *)
(*                  MCPOfficialManager and MCPManager).                    *)
(*   SpecOfficial - MCPOfficialManager (mcp_official_client.py): start,    *)
(*                  _initialize, _list_tools, call_tool, shutdown, with    *)
(*                  the server processes as the environment.               *)
(*   SpecAdapter  - MCPAdapter (mcp_client.py): caller threads, the loop   *)
(*                  thread and the per-server tasks.                       *)
(***************************************************************************)
EXTENDS Integers, Sequences, FiniteSets, TLC

VARIABLES
    \* ---- registry / exposed names (SpecNames) ----
    tools,              \* self.tools: dict qualified -> meta, in insertion order
    function_name_map,  \* self.function_name_map: dict exposed -> qualified
    spec,               \* the list build_openai_tools_spec returned last
    resolved,           \* what resolve_function_name returned last
    op,                 \* the operation performed last
    \* ---- MCPOfficialManager (SpecOfficial) ----
    servers_config,     \* self.servers_config: the list of config entries
    servers,            \* self.servers: dict name -> ServerHandle
    procs,              \* every process spawned so far, by pid: pipes and server side
    pc,                 \* where the caller thread is inside start() / call_tool()
    idx,                \* start(): index of the config entry being handled
    cur,                \* name of the server the caller is talking to
    variant,            \* _initialize / _list_tools: 1-based index into variants
    msg_id,             \* the id _wait_for is waiting for
    ret,                \* how the last caller-facing operation ended
    delivered,          \* the last (request, reply) pair _wait_for handed back
    calls,              \* history: how each call_tool that got to a server ended
    nOps,               \* number of caller-facing operations invoked
    nExits,             \* number of server processes that exited on their own
    nStale,             \* number of timed-out requests the server may still answer
    nFail,              \* number of handshake variants that failed so far
    \* ---- MCPAdapter (SpecAdapter) ----
    _closed,            \* self._closed
    _loop,              \* the event loop: "none", "created", "running", "closed"
    ready,              \* the callbacks scheduled on the loop, in order
    _servers,           \* self._servers: the runtimes, in insertion order
    _tools,             \* self._tools: the aggregated registry
    thr,                \* the caller threads: where each is and what it got back
    dispatched,         \* history: the tools/call requests written to a session
    nAdOps,             \* number of adapter operations invoked
    nLoops,             \* number of event loops created
    \* ---- MCPOfficialManager with several caller threads (SpecThreads) ----
    callers,            \* the threads inside call_tool: position and locals
    \* ---- the result normalizers (SpecNormalize) ----
    call_result,        \* the reply of a successful tools/call
    normalized,         \* what the normalizer made of it
    via,                \* which normalizer ran: "none", "adapter", "official"
    \* ---- MCPOfficialManager._reader (SpecReader) ----
    units,              \* what the server wrote to its stdout, unit by unit
    stream,             \* the characters of the server's stdout not yet read
    reading,            \* the reader thread is in its loop (no EOF seen yet)
    rq,                 \* the queue q: the raw strings the reader has put
    decoded,            \* the messages json.loads in _wait_for has produced
    \* ---- spawning a server process (SpecSpawn) ----
    environ,            \* os.environ of the client process
    entry_env,          \* entry["env"]: the overrides of the config entry
    child_env,          \* the environment the server process is started with
    spawner,            \* who spawned: "none", "adapter", "official"
    \* ---- the waiting bounds (SpecTimeouts) ----
    init_timeout,       \* the init_timeout the manager was constructed with
    handshake_bound,    \* the timeout of a handshake wait, in seconds
    call_bound,         \* the timeout of the wait of call_tool, in seconds
    bounded_by,         \* whose bounds these are: "none", "adapter", "official"
    \* ---- resolving the executable (SpecResolve) ----
    entry_cmd,          \* the entry and the environment _build_server_params reads
    resolved_cmd,       \* the command of the StdioServerParameters it returns
    resolver,           \* which module resolved: "none", "mcp_client", "mcp_client_adapter"
    \* ---- the tool-call loop of the chat front ends (SpecChat) ----
    conversation,       \* conversation: the messages kept across model requests
    messages,           \* the messages= argument of the latest model request
    chat_pc,            \* position in the loop: "off", "input", "request", "tools", "answered", "raised"
    tool_calls,         \* msg.tool_calls of the reply being processed
    tc_idx,             \* the position of the for loop in msg.tool_calls
    used_tools,         \* used_tools
    nRequests,          \* how many model requests were made
    ui                  \* which front end runs: "none", "chat_client", "streamlit_app"

namesVars == <<tools, function_name_map, spec, resolved, op>>

offVars == <<servers_config, servers, procs, pc, idx, cur, variant, msg_id,
             ret, delivered, calls, nOps, nExits, nStale, nFail>>

adVars == <<_closed, _loop, ready, _servers, _tools, thr, dispatched, nAdOps, nLoops>>

thVars == <<callers>>

nzVars == <<call_result, normalized, via>>

rdVars == <<units, stream, reading, rq, decoded>>

spVars == <<environ, entry_env, child_env, spawner>>

tmVars == <<init_timeout, handshake_bound, call_bound, bounded_by>>

\* the variables of the specifications added after SpecSpawn
rsVars == <<entry_cmd, resolved_cmd, resolver>>

chVars == <<conversation, messages, chat_pc, tool_calls, tc_idx, used_tools, nRequests, ui>>

moreVars == <<tmVars, rsVars, chVars>>

extVars == <<spVars, moreVars>>

fnVars == <<nzVars, rdVars, extVars>>

vars == <<namesVars, offVars, adVars, thVars, fnVars>>

(***************************************************************************)
(* Python values                                                           *)
(***************************************************************************)
None == "None"

\* A dict is a function; Python's d[k] = v and d.get(k).
EmptyDict == <<>>

DictSet(d, k, v) == [x \in (DOMAIN d) \cup {k} |-> IF x = k THEN v ELSE d[x]]

DictGet(d, k) == IF k \in DOMAIN d THEN d[k] ELSE None

(***************************************************************************)
(* The registry: an insertion-ordered dict keyed by the qualified name.    *)
(***************************************************************************)
ServerNames == {"a", "c"}

ToolNames == {"b", "a_b", "forecast"}

MaxTools == 3

\* f"{handle.name}:{name}"
Qualified(server, name) == server \o ":" \o name

\* the meta stored under a qualified name
Meta(server, name) == [q |-> Qualified(server, name), server |-> server, name |-> name]

\* self.tools[qualified] = meta: an existing key keeps its place
RegistryPut(reg, meta) ==
    IF \E i \in 1..Len(reg) : reg[i].q = meta.q
    THEN [i \in 1..Len(reg) |-> IF reg[i].q = meta.q THEN meta ELSE reg[i]]
    ELSE Append(reg, meta)

\* counts[base]: how many registry entries have this local name
Counts(reg, base) == Cardinality({i \in 1..Len(reg) : reg[i].name = base})

\* the mutant of ExposedName: every tool is exposed under its bare name
ExposedNameBare(reg, meta) == meta.name

\* exposed = f"{meta['server']}_{base}" if counts[base] > 1 else base
ExposedName(reg, meta) ==
    IF Counts(reg, meta.name) > 1 THEN meta.server \o "_" \o meta.name ELSE meta.name

\* the loop over self.tools.items(): function_name_map[exposed] = qualified
RECURSIVE BuildNameMap(_, _, _)
BuildNameMap(reg, i, m) ==
    IF i > Len(reg) THEN m
    ELSE BuildNameMap(reg, i + 1, DictSet(m, ExposedName(reg, reg[i]), reg[i].q))

\* the returned list: one function entry per registry item, in dict order;
\* src is the registry item whose description and schema the entry carries
BuildSpecList(reg) ==
    [i \in 1..Len(reg) |-> [name |-> ExposedName(reg, reg[i]), src |-> reg[i].q]]

(***************************************************************************)
(* JSON values, tagged with their Python type                              *)
(***************************************************************************)
J(t, v) == [t |-> t, v |-> v]

JNull == J("null", None)

JStr(x) == J("str", x)

TextBlock(x) == J("dict", [type |-> JStr("text"), text |-> JStr(x)])

ContentResult(blocks) == J("dict", [content |-> J("list", blocks)])

\* call_tool's unwrapping of a successful reply's result member
FirstTextual(blk) ==
    IF "text" \in DOMAIN blk.v THEN blk.v["text"]
    ELSE IF "markdown" \in DOMAIN blk.v THEN blk.v["markdown"]
    ELSE blk.v["string"]

UnwrapResult(result) ==
    IF result.t = "null" THEN JNull
    ELSE IF result.t = "dict" /\ "content" \in DOMAIN result.v
              /\ result.v["content"].t = "list" /\ Len(result.v["content"].v) > 0
         THEN LET content == result.v["content"] IN
              IF Len(content.v) = 1 /\ content.v[1].t = "dict"
                 /\ "value" \in DOMAIN content.v[1].v
              THEN content.v[1].v["value"]
              ELSE IF Len(content.v) = 1 /\ content.v[1].t = "dict"
                      /\ DOMAIN content.v[1].v \cap {"text", "markdown", "string"} # {}
                   THEN FirstTextual(content.v[1])
                   ELSE content
         ELSE result

(***************************************************************************)
(* How an operation ends: it returns a value or lets an exception escape.  *)
(***************************************************************************)
Ret(o, kind, err, value) == [op |-> o, kind |-> kind, err |-> err, value |-> value]

NoRet == Ret("none", "none", "", JNull)

NoDelivery == [pid |-> 0, msg_id |-> -1, req |-> 0, msg |-> [id |-> -1, re |-> 0, from |-> 0, body |-> JNull]]

\* the threads that invoke call_tool on one MCPOfficialManager
Callers == {"t1", "t2"}

\* a thread outside call_tool; msg_id and tmp are the locals of _send
CallerIdle == [pc |-> "idle", msg_id |-> -1, tmp |-> -1, got |-> -1, result |-> "none"]

\* MCPOfficialManager as __init__ leaves it, for a given config
OfficialConstructed(config) ==
    /\ callers = [t \in Callers |-> CallerIdle]
    /\ servers_config = config
    /\ servers = EmptyDict
    /\ procs = <<>>
    /\ pc = "idle"
    /\ idx = 0
    /\ cur = None
    /\ variant = 0
    /\ msg_id = -1
    /\ ret = NoRet
    /\ delivered = NoDelivery
    /\ calls = <<>>
    /\ nOps = 0
    /\ nExits = 0
    /\ nStale = 0
    /\ nFail = 0

\* the caller threads: main drives start(), shutdown() and call_tool(),
\* aux invokes call_tool() concurrently
Threads == {"main", "aux"}

ThreadIdle ==
    [pc |-> "idle", i |-> 0, pos |-> 0, used |-> 0, fut |-> "none", res |-> 0,
     target |-> None, n |-> 0, closed |-> FALSE, ret |-> NoRet]

\* no reply is being normalized
NormalizerIdle ==
    /\ call_result = [structured |-> JNull, content |-> J("list", <<>>)]
    /\ normalized = JNull
    /\ via = "none"

\* no reader thread runs
ReaderIdle ==
    /\ units = <<>>
    /\ stream = <<>>
    /\ reading = FALSE
    /\ rq = <<>>
    /\ decoded = <<>>

\* no server process has been spawned
SpawnIdle ==
    /\ environ = EmptyDict
    /\ entry_env = EmptyDict
    /\ child_env = EmptyDict
    /\ spawner = "none"

\* no wait has been bounded
TimeoutsIdle ==
    /\ init_timeout = 0
    /\ handshake_bound = 0
    /\ call_bound = 0
    /\ bounded_by = "none"

\* no command has been resolved
ResolveIdle ==
    /\ entry_cmd = [command |-> "python", venv |-> "unset", MCP_PYTHON |-> "unset",
                    MCP_VENV |-> "unset"]
    /\ resolved_cmd = None
    /\ resolver = "none"

\* no chat front end runs
ChatIdle ==
    /\ conversation = <<>>
    /\ messages = <<>>
    /\ chat_pc = "off"
    /\ tool_calls = <<>>
    /\ tc_idx = 0
    /\ used_tools = 0
    /\ nRequests = 0
    /\ ui = "none"

MoreIdle == TimeoutsIdle /\ ResolveIdle /\ ChatIdle

ExtIdle == SpawnIdle /\ MoreIdle

FunctionsIdle == NormalizerIdle /\ ReaderIdle /\ ExtIdle

\* MCPAdapter as __init__ leaves it
AdapterConstructed ==
    /\ _closed = FALSE
    /\ _loop = "none"
    /\ ready = <<>>
    /\ _servers = <<>>
    /\ _tools = <<>>
    /\ thr = [t \in Threads |-> ThreadIdle]
    /\ dispatched = <<>>
    /\ nAdOps = 0
    /\ nLoops = 0

(***************************************************************************)
(* SpecNames                                                               *)
(***************************************************************************)
InitNames ==
    /\ tools = <<>>
    /\ function_name_map = EmptyDict
    /\ spec = <<>>
    /\ resolved = None
    /\ op = "init"
    /\ OfficialConstructed(<<>>)
    /\ AdapterConstructed
    /\ FunctionsIdle

\* _list_tools stores one discovered tool: self.tools[qualified] = {...}
RegisterTool(server, name) ==
    /\ Len(RegistryPut(tools, Meta(server, name))) <= MaxTools
    /\ tools' = RegistryPut(tools, Meta(server, name))
    /\ op' = "register"
    /\ UNCHANGED <<function_name_map, spec, resolved, offVars, adVars, thVars, fnVars>>

BuildOpenaiToolsSpec ==
    /\ function_name_map' = BuildNameMap(tools, 1, EmptyDict)
    /\ spec' = BuildSpecList(tools)
    /\ op' = "build"
    /\ UNCHANGED <<tools, resolved, offVars, adVars, thVars, fnVars>>

ExposedCandidates ==
    ToolNames \cup {s \o "_" \o n : s \in ServerNames, n \in ToolNames}

ResolveFunctionName(name) ==
    /\ resolved' = DictGet(function_name_map, name)
    /\ op' = "resolve"
    /\ UNCHANGED <<tools, function_name_map, spec, offVars, adVars, thVars, fnVars>>

NextNames ==
    \/ \E s \in ServerNames, n \in ToolNames : RegisterTool(s, n)
    \/ BuildOpenaiToolsSpec
    \/ \E n \in ExposedCandidates : ResolveFunctionName(n)

SpecNames == InitNames /\ [][NextNames]_vars

(***************************************************************************)
(* C1: after build_openai_tools_spec no two entries of the returned spec   *)
(* carry the same exposed function name, and the exposed-name map holds    *)
(* exactly one entry per registry tool.                                    *)
(***************************************************************************)
C1_ExposedNamesUnique ==
    op = "build" =>
        /\ \A i, j \in 1..Len(spec) : spec[i].name = spec[j].name => i = j
        /\ Cardinality(DOMAIN function_name_map) = Len(tools)

(***************************************************************************)
(* MCPOfficialManager: configuration, processes, the wire                  *)
(***************************************************************************)
NumEntries == 2

MaxOps == 2

MaxCallOps == 3

MaxStale == 1

MaxExits == 1

MaxFail == 1

\* what subprocess.Popen does with entry["command"]: "ok" starts, "missing"
\* raises FileNotFoundError, "noexec" (a file that is not executable) raises
\* PermissionError
Commands == {"ok", "missing", "noexec"}

ConfigEntries ==
    {[name |-> n, enabled |-> TRUE, command |-> c] : n \in ServerNames, c \in Commands}
    \cup {[name |-> n, enabled |-> FALSE, command |-> "ok"] : n \in ServerNames}

Configs == [1..NumEntries -> ConfigEntries]

\* len(variants) in _initialize and in _list_tools
InitVariants == 3

ListVariants == 6

\* the tools a server announces when it answers tools/list with its catalog
Catalog(name) == <<"b">>

\* the result members a server may answer a tools/call with
CallResults ==
    << ContentResult(<<TextBlock("42")>>),
       ContentResult(<<TextBlock("a"), TextBlock("b")>>) >>

\* a spawned process: its state, what was written to its stdin (wire), the
\* requests on the wire it may still answer (pending), the course of its
\* handshake, and how _list_tools ended for it (found: the variant whose
\* reply held tools)
NewProc(name) ==
    [name |-> name, state |-> "running", wire |-> <<>>, pending |-> {},
     init |-> "none", failed |-> 0, notif_calls |-> 0, list |-> "none", found |-> 0]

NewHandle(pid) == [pid |-> pid, next_id |-> 0, stdout_queue |-> <<>>]

\* process.stdin.write / flush succeed while the child still reads its stdin
PipeOpen(P, pid) == P[pid].state = "running"

\* _send: the id is taken and next_id advanced before the write; the write
\* raises BrokenPipeError when the child is gone. handle.process.stdin is a
\* file object, so the "Server stdin closed" test never fires.
SendId(S, name, id_required) == IF id_required THEN S[name].next_id ELSE -1

SendServers(S, name, id_required) ==
    IF id_required THEN [S EXCEPT ![name].next_id = @ + 1] ELSE S

SendProcs(S, P, name, method, v, id_required) ==
    LET pid == S[name].pid IN
    IF PipeOpen(P, pid)
    THEN [P EXCEPT ![pid].wire =
              Append(@, [method |-> method, id |-> SendId(S, name, id_required), v |-> v]),
                   ![pid].pending =
              IF id_required THEN @ \cup {Len(P[pid].wire) + 1} ELSE @]
    ELSE P

SendOk(S, P, name) == PipeOpen(P, S[name].pid)

\* the mutant of WaitMatches: _wait_for returns the first message it dequeues
WaitMatchesAny(msg, id) == TRUE

\* _wait_for: if msg.get("id") == msg_id
WaitMatches(msg, id) == msg.id = id

Waiting == pc \in {"init_wait", "list_wait", "call_wait"}

\* the mutant of QueueOwner: one inbound queue shared by all servers
QueueOwnerShared(name) ==
    CHOOSE n \in DOMAIN servers : \A m \in DOMAIN servers : servers[n].pid <= servers[m].pid

\* start() creates one queue per server: the reader thread of a server and
\* its handle hold the same queue, and no other server's
QueueOwner(name) == name

\* handle.stdout_queue of the server the caller waits for
Queue == servers[QueueOwner(cur)].stdout_queue

\* stdout_queue.get() took the first message
Dequeued == [servers EXCEPT ![QueueOwner(cur)].stdout_queue = Tail(@)]

\* the position of the awaited request on the wire of its process
WireIndexOf(pid, id) ==
    CHOOSE i \in 1..Len(procs[pid].wire) :
        procs[pid].wire[i].id = id /\ procs[pid].wire[i].method # "notifications/initialized"

Delivery(msg) ==
    [pid |-> servers[cur].pid, msg_id |-> msg_id,
     req |-> WireIndexOf(servers[cur].pid, msg_id),
     msg |-> [id |-> msg.id, re |-> msg.re, from |-> msg.from, body |-> msg.body]]

\* the reply has arrived: it is in the queue, so _wait_for reaches it before
\* its deadline
ReplyArrived == \E i \in 1..Len(Queue) : WaitMatches(Queue[i], msg_id)

\* _wait_for gave up on the awaited request. The server may still answer it
\* later (keep), which the model allows MaxStale times, or never answers it.
StaleOk(keep) == keep => nStale < MaxStale

Abandon(P, keep) ==
    IF keep THEN P
    ELSE [P EXCEPT ![servers[cur].pid].pending =
              @ \ {WireIndexOf(servers[cur].pid, msg_id)}]

\* the count of failed handshake variants, kept up to MaxFail
CountFail == IF nFail < MaxFail THEN nFail + 1 ELSE nFail

(***************************************************************************)
(* start(): the loop over the config entries                               *)
(***************************************************************************)
\* a loop that passes only the entries already in self.servers and those
\* whose command is not found
SkippedEnabledOnly(S, e) == e.name \in DOMAIN S \/ e.command = "missing"

\* entries the loop passes without effect: not enabled, already in
\* self.servers, or Popen raised FileNotFoundError
Skipped(S, e) == ~e.enabled \/ e.name \in DOMAIN S \/ e.command = "missing"

RECURSIVE NextSpawnIdx(_, _)
NextSpawnIdx(S, i) ==
    IF i > Len(servers_config) THEN i
    ELSE IF Skipped(S, servers_config[i]) THEN NextSpawnIdx(S, i + 1)
    ELSE i

\* the caller stays inside start(), at label l with variant v
Goto(S, P, l, v) ==
    /\ servers' = S /\ procs' = P
    /\ pc' = l /\ variant' = v
    /\ UNCHANGED <<idx, cur, ret>>

\* a caller-facing operation ends
Finish(S, P, r) ==
    /\ servers' = S /\ procs' = P
    /\ pc' = "idle" /\ idx' = 0 /\ cur' = None /\ variant' = 0
    /\ ret' = r

\* continue start() at entry i with self.servers = S and the processes P: up
\* to the next entry that is spawned, or that makes Popen raise another
\* error than FileNotFoundError, or to the end of the list
StartContinue(S, P, i) ==
    LET j == NextSpawnIdx(S, i) IN
    IF j > Len(servers_config)
    THEN Finish(S, P, Ret("start", "return", "", JNull))
    ELSE IF servers_config[j].command = "noexec"
    THEN Finish(S, P, Ret("start", "raise", "PermissionError", JNull))
    ELSE /\ procs' = Append(P, NewProc(servers_config[j].name))
         /\ servers' = DictSet(S, servers_config[j].name, NewHandle(Len(P) + 1))
         /\ pc' = "init_send" /\ idx' = j /\ cur' = servers_config[j].name
         /\ variant' = 1
         /\ ret' = ret

Start ==
    /\ pc = "idle"
    /\ nOps' = nOps + 1
    /\ StartContinue(servers, procs, 1)
    /\ msg_id' = -1
    /\ delivered' = NoDelivery
    /\ UNCHANGED <<adVars, thVars, fnVars, servers_config, calls, nExits, nStale, nFail, namesVars>>

(***************************************************************************)
(* _initialize                                                             *)
(***************************************************************************)
\* self._send(handle, "initialize", params=variants[variant])
InitSend ==
    /\ pc = "init_send"
    /\ IF SendOk(servers, procs, cur)
       THEN /\ msg_id' = SendId(servers, cur, TRUE)
            /\ Goto(SendServers(servers, cur, TRUE),
                    SendProcs(servers, procs, cur, "initialize", variant, TRUE),
                    "init_wait", variant)
       ELSE \* BrokenPipeError leaves _initialize; start() logs it (line 80)
            /\ msg_id' = -1
            /\ StartContinue(SendServers(servers, cur, TRUE),
                             [procs EXCEPT ![servers[cur].pid].init = "aborted"],
                             idx + 1)
    /\ delivered' = NoDelivery
    /\ UNCHANGED <<adVars, thVars, fnVars, servers_config, calls, nOps, nExits, nStale, nFail, namesVars>>

\* _initialize that returns normally after its last variant failed, so that
\* start() goes on to _list_tools
InitFailedNoRaise(S, P) ==
    LET pid == S[cur].pid
        P1 == [P EXCEPT ![pid].failed = @ + 1] IN
    IF variant < InitVariants
    THEN Goto(S, P1, "init_send", variant + 1)
    ELSE Goto(S, [P1 EXCEPT ![pid].init = "failed"], "list_send", 1)

\* a variant failed (error reply or timeout): the next variant, or
\* RuntimeError after the last, which start() logs (line 80)
InitFailed(S, P) ==
    LET pid == S[cur].pid
        P1 == [P EXCEPT ![pid].failed = @ + 1] IN
    IF variant < InitVariants
    THEN Goto(S, P1, "init_send", variant + 1)
    ELSE StartContinue(S, [P1 EXCEPT ![pid].init = "failed"], idx + 1)

\* the mutant of InitAccepted: the loop does not return on success, it goes
\* on with the next variant
InitAcceptedNoReturn(S, P) ==
    LET pid == S[cur].pid
        P1 == [SendProcs(S, P, cur, "notifications/initialized", 0, FALSE)
                  EXCEPT ![pid].notif_calls = @ + 1, ![pid].init = "accepted"] IN
    IF variant < InitVariants
    THEN Goto(S, P1, "init_send", variant + 1)
    ELSE Goto(S, P1, "list_send", 1)

\* a reply without an error member: send notifications/initialized (a failure
\* of that write is swallowed), return, and start() goes on to _list_tools
InitAccepted(S, P) ==
    LET pid == S[cur].pid
        P1 == [SendProcs(S, P, cur, "notifications/initialized", 0, FALSE)
                  EXCEPT ![pid].notif_calls = @ + 1, ![pid].init = "accepted"] IN
    Goto(S, P1, "list_send", 1)

\* one turn of _wait_for's loop that does not end it: a message with another
\* id is dropped
WaitSkip ==
    /\ Waiting
    /\ Len(Queue) > 0
    /\ ~WaitMatches(Head(Queue), msg_id)
    /\ servers' = Dequeued
    /\ UNCHANGED <<adVars, thVars, fnVars, servers_config, procs, pc, idx, cur, variant, msg_id, ret,
                   delivered, calls, nOps, nExits, nStale, nFail, namesVars>>

InitReply ==
    /\ pc = "init_wait"
    /\ Len(Queue) > 0
    /\ WaitMatches(Head(Queue), msg_id)
    /\ delivered' = Delivery(Head(Queue))
    /\ LET S == Dequeued IN
       IF Head(Queue).kind = "result"
       THEN InitAccepted(S, procs)
       ELSE InitFailed(S, procs)
    /\ UNCHANGED <<adVars, thVars, fnVars, servers_config, msg_id, calls, nOps, nExits, nStale, nFail, namesVars>>

InitTimeout ==
    /\ pc = "init_wait"
    /\ ~ReplyArrived
    /\ \E keep \in BOOLEAN :
          /\ StaleOk(keep)
          /\ nStale' = IF keep THEN nStale + 1 ELSE nStale
          /\ InitFailed(servers, Abandon(procs, keep))
    /\ nFail' = CountFail
    /\ delivered' = NoDelivery
    /\ UNCHANGED <<adVars, thVars, fnVars, servers_config, msg_id, calls, nOps, nExits, namesVars>>

(***************************************************************************)
(* _list_tools                                                             *)
(***************************************************************************)
\* a variant gave nothing (send failed, timeout, error, empty array): the
\* next variant, or the warning after the last and a normal return
ListNext(S, P) ==
    IF variant < ListVariants
    THEN Goto(S, P, "list_send", variant + 1)
    ELSE StartContinue(S, [P EXCEPT ![S[cur].pid].list = "exhausted"], idx + 1)

ListSend ==
    /\ pc = "list_send"
    /\ IF SendOk(servers, procs, cur)
       THEN /\ msg_id' = SendId(servers, cur, TRUE)
            /\ Goto(SendServers(servers, cur, TRUE),
                    SendProcs(servers, procs, cur, "tools/list", variant, TRUE),
                    "list_wait", variant)
       ELSE \* the exception is caught inside the loop (line 266)
            /\ msg_id' = -1
            /\ ListNext(SendServers(servers, cur, TRUE), procs)
    /\ delivered' = NoDelivery
    /\ UNCHANGED <<adVars, thVars, fnVars, servers_config, calls, nOps, nExits, nStale, nFail, namesVars>>

\* the loop over result["tools"]: self.tools[qualified] = {...}
RECURSIVE RegisterAll(_, _, _)
RegisterAll(reg, server, names) ==
    IF names = <<>> THEN reg
    ELSE RegisterAll(RegistryPut(reg, Meta(server, Head(names))), server, Tail(names))

\* _list_tools without the return after a reply that held tools: the
\* remaining variants are sent as well
ListReplyNoStop ==
    /\ pc = "list_wait"
    /\ Len(Queue) > 0
    /\ WaitMatches(Head(Queue), msg_id)
    /\ delivered' = Delivery(Head(Queue))
    /\ LET S == Dequeued
           resp == Head(Queue)
           pid == servers[cur].pid IN
       IF resp.kind = "error"
       THEN /\ ListNext(S, procs)
            /\ tools' = tools
       ELSE /\ tools' = RegisterAll(tools, cur, resp.body.v)
            /\ IF Len(resp.body.v) > 0 /\ procs[pid].list = "none"
               THEN ListNext(S, [procs EXCEPT ![pid].list = "found", ![pid].found = variant])
               ELSE ListNext(S, procs)
    /\ UNCHANGED <<adVars, thVars, fnVars, servers_config, msg_id, calls, nOps, nExits, nStale, nFail,
                   function_name_map, spec, resolved, op>>

ListReply ==
    /\ pc = "list_wait"
    /\ Len(Queue) > 0
    /\ WaitMatches(Head(Queue), msg_id)
    /\ delivered' = Delivery(Head(Queue))
    /\ LET S == Dequeued
           resp == Head(Queue)
           pid == servers[cur].pid IN
       IF resp.kind = "error"
       THEN /\ ListNext(S, procs)
            /\ tools' = tools
       ELSE /\ tools' = RegisterAll(tools, cur, resp.body.v)
            /\ IF Len(resp.body.v) > 0
               THEN StartContinue(S, [procs EXCEPT ![pid].list = "found",
                                                   ![pid].found = variant], idx + 1)
               ELSE ListNext(S, procs)
    /\ UNCHANGED <<adVars, thVars, fnVars, servers_config, msg_id, calls, nOps, nExits, nStale, nFail,
                   function_name_map, spec, resolved, op>>

ListTimeout ==
    /\ pc = "list_wait"
    /\ ~ReplyArrived
    /\ \E keep \in BOOLEAN :
          /\ StaleOk(keep)
          /\ nStale' = IF keep THEN nStale + 1 ELSE nStale
          /\ ListNext(servers, Abandon(procs, keep))
    /\ nFail' = CountFail
    /\ delivered' = NoDelivery
    /\ UNCHANGED <<adVars, thVars, fnVars, servers_config, msg_id, calls, nOps, nExits, namesVars>>

(***************************************************************************)
(* shutdown()                                                              *)
(***************************************************************************)
HandlePids == {servers[n].pid : n \in DOMAIN servers}

\* handle.process.terminate() for every handle
Terminate(P) ==
    [p \in 1..Len(P) |->
        IF p \in HandlePids THEN [P[p] EXCEPT !.state = "exited", !.pending = {}]
        ELSE P[p]]

Shutdown ==
    /\ pc = "idle"
    /\ nOps' = nOps + 1
    /\ Finish(EmptyDict, Terminate(procs), Ret("shutdown", "return", "", JNull))
    /\ tools' = <<>>
    /\ function_name_map' = EmptyDict
    /\ msg_id' = -1
    /\ delivered' = NoDelivery
    /\ UNCHANGED <<adVars, thVars, fnVars, servers_config, calls, nExits, nStale, nFail, spec, resolved, op>>

(***************************************************************************)
(* The server processes                                                    *)
(***************************************************************************)
\* what a server may answer a request with
Answers(method) ==
    IF method = "initialize"
    THEN << [kind |-> "result", body |-> JNull],
            [kind |-> "error", body |-> JStr("rejected")] >>
    ELSE IF method = "tools/list"
    THEN << [kind |-> "result", body |-> J("list", Catalog("any"))],
            [kind |-> "result", body |-> J("list", <<>>)],
            [kind |-> "error", body |-> JStr("rejected")] >>
    ELSE << [kind |-> "result", body |-> CallResults[1]],
            [kind |-> "result", body |-> CallResults[2]],
            [kind |-> "result", body |-> JNull],
            [kind |-> "error", body |-> JStr("failed")] >>

\* an answer that makes a handshake variant fail
BadHandshake(method, ans) ==
    \/ method = "initialize" /\ ans.kind = "error"
    \/ method = "tools/list" /\ (ans.kind = "error" \/ Len(ans.body.v) = 0)

HandleOf(pid) == CHOOSE n \in DOMAIN servers : servers[n].pid = pid

\* process pid answers the request at position i of its stdin with the
\* request's id; the reader thread puts the message on the handle's queue
ServerReply(pid, i, a) ==
    LET req == procs[pid].wire[i]
        ans == Answers(req.method)[a] IN
    /\ procs[pid].state = "running"
    /\ i \in procs[pid].pending
    /\ procs' = [procs EXCEPT ![pid].pending = @ \ {i}]
    /\ servers' = [servers EXCEPT ![QueueOwner(HandleOf(pid))].stdout_queue =
                      Append(@, [id |-> req.id, kind |-> ans.kind, body |-> ans.body,
                                 re |-> i, from |-> pid])]
    /\ nFail' = IF BadHandshake(req.method, ans) THEN CountFail ELSE nFail
    /\ UNCHANGED <<adVars, thVars, fnVars, servers_config, pc, idx, cur, variant, msg_id, ret, delivered,
                   calls, nOps, nExits, nStale, namesVars>>

GoodReply(pid, i, a) == ~BadHandshake(procs[pid].wire[i].method,
                                      Answers(procs[pid].wire[i].method)[a])

\* the process exits by itself: its end of the stdin pipe closes
ServerExit(pid) ==
    /\ procs[pid].state = "running"
    /\ nExits < MaxExits
    /\ nExits' = nExits + 1
    /\ procs' = [procs EXCEPT ![pid].state = "exited", ![pid].pending = {}]
    /\ UNCHANGED <<adVars, thVars, fnVars, servers_config, servers, pc, idx, cur, variant, msg_id, ret,
                   delivered, calls, nOps, nStale, nFail, namesVars>>

(***************************************************************************)
(* SpecOfficial: start() and shutdown() against every configuration        *)
(***************************************************************************)
InitOfficial ==
    /\ tools = <<>>
    /\ function_name_map = EmptyDict
    /\ spec = <<>>
    /\ resolved = None
    /\ op = "init"
    /\ \E config \in Configs : OfficialConstructed(config)
    /\ AdapterConstructed
    /\ FunctionsIdle

NextOfficial ==
    \/ nOps < MaxOps /\ Start
    \/ nOps < MaxOps /\ Shutdown
    \/ InitSend
    \/ WaitSkip
    \/ InitReply
    \/ InitTimeout
    \/ ListSend
    \/ ListReply
    \/ ListTimeout
    \/ \E pid \in 1..Len(procs) : \E i \in procs[pid].pending :
          \E a \in 1..Len(Answers(procs[pid].wire[i].method)) : ServerReply(pid, i, a)
    \/ \E pid \in 1..Len(procs) : ServerExit(pid)

SpecOfficial == InitOfficial /\ [][NextOfficial]_vars

(***************************************************************************)
(* call_tool                                                               *)
(***************************************************************************)
\* the qualified names call_tool is invoked with
CallTargets == {"a:b", "c:b", "a:forecast"}

\* meta = self.tools.get(qualified)
HasTool(q) == \E i \in 1..Len(tools) : tools[i].q = q

ToolMeta(q) == tools[CHOOSE i \in 1..Len(tools) : tools[i].q = q]

\* {"error": ...}
ErrorValue(text) == J("dict", [error |-> JStr(text)])

\* one finished invocation of call_tool: how it ended, how many tools/call
\* requests it wrote, and what the server had answered to it
CallRecord(server, r, sent, replied, from) ==
    [server |-> server, kind |-> r.kind, err |-> r.err, sent |-> sent,
     replied |-> replied,
     pid |-> IF server \in DOMAIN servers THEN servers[server].pid ELSE 0,
     from |-> from]

\* what the called server has answered to the awaited request: the kind of
\* the reply on its handle's queue, or "none"
ReplyOnQueue ==
    LET q == Queue IN
    IF \E i \in 1..Len(q) : q[i].id = msg_id
    THEN q[CHOOSE i \in 1..Len(q) : q[i].id = msg_id].kind
    ELSE "none"

\* the tools/call requests written to the stdin of process pid
CallsOnWire(P, pid) ==
    Cardinality({i \in 1..Len(P[pid].wire) : P[pid].wire[i].method = "tools/call"})

\* the tools/call requests this invocation has written (variant holds the
\* count at its entry)
SentByCall == CallsOnWire(procs, servers[cur].pid) - variant

CallTool(q) ==
    /\ pc = "idle"
    /\ nOps' = nOps + 1
    /\ delivered' = NoDelivery
    /\ IF ~HasTool(q)
       THEN /\ Finish(servers, procs, Ret("call", "return", "Unknown tool", ErrorValue("Unknown tool")))
            /\ calls' = Append(calls, CallRecord(None, ret', 0, "none", 0))
            /\ msg_id' = -1
       ELSE IF ToolMeta(q).server \notin DOMAIN servers
       THEN /\ Finish(servers, procs, Ret("call", "return", "not running", ErrorValue("not running")))
            /\ calls' = Append(calls, CallRecord(ToolMeta(q).server, ret', 0, "none", 0))
            /\ msg_id' = -1
       ELSE LET name == ToolMeta(q).server IN
            IF SendOk(servers, procs, name)
            THEN /\ servers' = SendServers(servers, name, TRUE)
                 /\ procs' = SendProcs(servers, procs, name, "tools/call", 0, TRUE)
                 /\ msg_id' = SendId(servers, name, TRUE)
                 /\ pc' = "call_wait" /\ cur' = name
                 /\ variant' = CallsOnWire(procs, servers[name].pid)
                 /\ UNCHANGED <<idx, ret, calls>>
            ELSE \* stdin.write raises BrokenPipeError; nothing catches it
                 /\ Finish(SendServers(servers, name, TRUE), procs,
                           Ret("call", "raise", "BrokenPipeError", JNull))
                 /\ calls' = Append(calls, CallRecord(name, ret', 0, "none", 0))
                 /\ msg_id' = -1
    /\ UNCHANGED <<adVars, thVars, fnVars, servers_config, nExits, nStale, nFail, namesVars>>

CallReply ==
    /\ pc = "call_wait"
    /\ Len(Queue) > 0
    /\ WaitMatches(Head(Queue), msg_id)
    /\ delivered' = Delivery(Head(Queue))
    /\ LET S == Dequeued
           resp == Head(Queue) IN
       /\ IF resp.kind = "error"
          THEN Finish(S, procs, Ret("call", "return", "server error", J("dict", [error |-> resp.body])))
          ELSE Finish(S, procs, Ret("call", "return", "", UnwrapResult(resp.body)))
       /\ calls' = Append(calls, CallRecord(cur, ret', SentByCall, resp.kind, resp.from))
    /\ UNCHANGED <<adVars, thVars, fnVars, servers_config, msg_id, nOps, nExits, nStale, nFail, namesVars>>

\* the mutant of CallTimeout: on a timeout the request is sent again
CallTimeoutRetry ==
    /\ pc = "call_wait"
    /\ ~ReplyArrived
    /\ IF SentByCall < 2 /\ SendOk(servers, procs, cur)
       THEN /\ servers' = SendServers(servers, cur, TRUE)
            /\ procs' = SendProcs(servers, procs, cur, "tools/call", 0, TRUE)
            /\ msg_id' = SendId(servers, cur, TRUE)
            /\ UNCHANGED <<pc, idx, cur, variant, ret, calls>>
       ELSE /\ Finish(servers, procs, Ret("call", "return", "Timeout", ErrorValue("Timeout")))
            /\ calls' = Append(calls, CallRecord(cur, ret', SentByCall, ReplyOnQueue, 0))
            /\ msg_id' = msg_id
    /\ delivered' = NoDelivery
    /\ UNCHANGED <<adVars, thVars, fnVars, servers_config, nOps, nExits, nStale, nFail, namesVars>>

\* _wait_for returned None after 30 seconds
CallTimeout ==
    /\ pc = "call_wait"
    /\ ~ReplyArrived
    /\ \E keep \in BOOLEAN :
          /\ StaleOk(keep)
          /\ nStale' = IF keep THEN nStale + 1 ELSE nStale
          /\ Finish(servers, Abandon(procs, keep),
                    Ret("call", "return", "Timeout", ErrorValue("Timeout")))
    /\ calls' = Append(calls, CallRecord(cur, ret', SentByCall, ReplyOnQueue, 0))
    /\ delivered' = NoDelivery
    /\ UNCHANGED <<adVars, thVars, fnVars, servers_config, msg_id, nOps, nExits, nFail, namesVars>>

(***************************************************************************)
(* SpecCalls: call_tool between start() and shutdown(); at most MaxFail    *)
(* handshake variants fail                                                 *)
(***************************************************************************)
InitCalls == InitOfficial

NextCalls ==
    \/ nOps < MaxCallOps /\ Start
    \/ nOps < MaxCallOps /\ Shutdown
    \/ \E q \in CallTargets : nOps < MaxCallOps /\ CallTool(q)
    \/ InitSend
    \/ WaitSkip
    \/ InitReply
    \/ nFail < MaxFail /\ InitTimeout
    \/ ListSend
    \/ ListReply
    \/ nFail < MaxFail /\ ListTimeout
    \/ CallReply
    \/ CallTimeout
    \/ \E pid \in 1..Len(procs) : \E i \in procs[pid].pending :
          \E a \in 1..Len(Answers(procs[pid].wire[i].method)) :
             /\ nFail < MaxFail \/ GoodReply(pid, i, a)
             /\ ServerReply(pid, i, a)
    \/ \E pid \in 1..Len(procs) : ServerExit(pid)

SpecCalls == InitCalls /\ [][NextCalls]_vars

(***************************************************************************)
(* Observations the properties are stated on                               *)
(***************************************************************************)
Pids == 1..Len(procs)

MethodOnWire(pid, method) ==
    {i \in 1..Len(procs[pid].wire) : procs[pid].wire[i].method = method}

\* start() has returned or raised
StartEnded == pc = "idle" /\ ret.op = "start"

\* the enabled entries of the configuration that name a server for the first
\* time, and those of them whose command starts
FirstEnabled(i) ==
    /\ servers_config[i].enabled
    /\ \A j \in 1..(i - 1) :
          servers_config[j].enabled => servers_config[j].name # servers_config[i].name

ToolsOf(name) == {i \in 1..Len(tools) : tools[i].server = name}

(***************************************************************************)
(* C3: call_tool never lets a failure escape as an exception: every        *)
(* finished invocation has returned to its caller (failures as an error    *)
(* value), whatever the state of the target server.                        *)
(***************************************************************************)
C3_CallToolNeverRaises ==
    \A i \in 1..Len(calls) : calls[i].kind = "return"

(***************************************************************************)
(* C4: in _initialize the variants go out in list order; when k variants   *)
(* failed and the next one succeeded exactly k+1 initialize requests were  *)
(* sent, none after the success, and notifications/initialized was sent    *)
(* exactly once, after that success; when every variant failed it was not  *)
(* sent at all.                                                            *)
(***************************************************************************)
C4_InitializeVariants ==
    \A pid \in Pids :
        LET w == procs[pid].wire
            n == Cardinality(MethodOnWire(pid, "initialize"))
            notifs == MethodOnWire(pid, "notifications/initialized") IN
        /\ \A i \in 1..n : w[i].method = "initialize" /\ w[i].v = i
        /\ procs[pid].init = "accepted" =>
              /\ n = procs[pid].failed + 1
              /\ procs[pid].notif_calls = 1
              /\ notifs \subseteq {n + 1}
              /\ procs[pid].state = "running" => notifs = {n + 1}
        /\ procs[pid].init = "failed" =>
              /\ n = InitVariants /\ procs[pid].failed = InitVariants
              /\ procs[pid].notif_calls = 0 /\ notifs = {}
        /\ procs[pid].init \in {"none", "aborted"} =>
              procs[pid].notif_calls = 0 /\ notifs = {}

\* two variants failed, the third was accepted, and discovery went on
C4_Witness ==
    \E pid \in Pids :
        /\ procs[pid].init = "accepted" /\ procs[pid].failed = 2
        /\ Cardinality(MethodOnWire(pid, "initialize")) = 3
        /\ MethodOnWire(pid, "notifications/initialized") = {4}
        /\ MethodOnWire(pid, "tools/list") # {}

(***************************************************************************)
(* C5: with an enabled server whose command cannot be found or started,    *)
(* start() completes without raising, every server with a valid command    *)
(* has been started, and the registry holds no tool of a server whose      *)
(* command is invalid.                                                     *)
(***************************************************************************)
C5_StartToleratesInvalidCommand ==
    StartEnded =>
        /\ ret.kind = "return"
        /\ \A name \in ServerNames :
              IF \E i \in 1..Len(servers_config) :
                     /\ servers_config[i].name = name /\ servers_config[i].enabled
                     /\ servers_config[i].command = "ok"
              THEN name \in DOMAIN servers
              ELSE ToolsOf(name) = {}

(***************************************************************************)
(* C6: when every initialize variant of a server failed, start() does not  *)
(* raise, that server has no tool in the registry, and every server        *)
(* configured after it went through its own handshake.                     *)
(***************************************************************************)
C6_FailedHandshakeIsolated ==
    \A pid \in Pids :
        (StartEnded /\ procs[pid].init = "failed" /\ pid \in HandlePids) =>
            /\ ret.kind = "return"
            /\ ToolsOf(procs[pid].name) = {}
            /\ \A i \in 1..Len(servers_config) :
                  (/\ FirstEnabled(i) /\ servers_config[i].command = "ok"
                   /\ \E j \in 1..(i - 1) : servers_config[j].name = procs[pid].name)
                      => /\ servers_config[i].name \in DOMAIN servers
                         /\ procs[servers[servers_config[i].name].pid].init # "none"

C9_TimeoutIsolated ==
    \A i, j \in 1..Len(calls) :
        (/\ i < j
         /\ calls[i].err = "Timeout"
         /\ calls[j].pid # 0 /\ calls[j].pid # calls[i].pid
         /\ calls[j].server # calls[i].server
         /\ calls[j].replied = "result") =>
            /\ calls[j].kind = "return" /\ calls[j].err = ""
            /\ calls[j].from = calls[j].pid
            /\ (j = Len(calls) /\ pc = "idle" /\ ret.op = "call") =>
                  /\ delivered.pid = calls[j].pid
                  /\ delivered.msg.re = delivered.req
                  /\ ret.value = UnwrapResult(delivered.msg.body)

\* a call to one server timed out, the next call went to the other server
\* and returned its result
C9_Witness ==
    /\ Len(calls) >= 2
    /\ pc = "idle" /\ ret.op = "call"
    /\ LET i == Len(calls) - 1
           j == Len(calls) IN
       /\ calls[i].err = "Timeout" /\ calls[i].replied = "none"
       /\ calls[j].server # calls[i].server
       /\ calls[j].replied = "result" /\ calls[j].err = ""
       /\ calls[j].from = calls[j].pid

(***************************************************************************)
(* C10: the reply _wait_for hands back for a request carries the id of     *)
(* that request and is the server's answer to that very request; a reply   *)
(* to an earlier, timed-out request is never handed back for a later one.  *)
(***************************************************************************)
C10_ReplyMatchesRequest ==
    delivered.pid # 0 =>
        /\ delivered.msg.id = delivered.msg_id
        /\ delivered.msg.re = delivered.req
        /\ delivered.msg.from = delivered.pid

\* a request timed out, its late reply reached the queue and was dropped
\* while a later request to the same server waited, and the later request's
\* own reply was handed back
C10_Witness ==
    /\ delivered.pid # 0
    /\ nStale > 0 /\ nExits = 0
    /\ Len(procs) = Cardinality(DOMAIN servers)
    /\ \A pid \in Pids : procs[pid].pending = {}
    /\ \A n \in DOMAIN servers : servers[n].stdout_queue = <<>>
    /\ delivered.msg.re = delivered.req

(***************************************************************************)
(* MCPAdapter (mcp_client.py)                                              *)
(***************************************************************************)
AdMaxOps == 3

\* the tools a server announces in its tools/list reply
AdCatalog(name) == IF name = "a" THEN <<"b">> ELSE <<"b", "forecast">>

\* _ServerRuntime(name=name, params=params), with the position of its task
\* (stage) and how start() saw its wait end
NewRuntime(entry) ==
    [name |-> entry.name, command |-> entry.command, session |-> FALSE,
     started |-> FALSE, shutdown |-> FALSE, tools |-> <<>>, stage |-> "new",
     wait |-> "none"]

RtIndex(name) == CHOOSE k \in 1..Len(_servers) : _servers[k].name = name

\* a test that finds no runtime under any name
HasRuntimeNever(S, name) == FALSE

HasRuntime(S, name) == \E k \in 1..Len(S) : S[k].name = name

\* a callback or coroutine handed to the loop
Callback(kind, name, tid, n, closed) ==
    [kind |-> kind, name |-> name, tid |-> tid, n |-> n, closed |-> closed]

\* start(): the loop over the config entries
RECURSIVE AddRuntimes(_, _)
AddRuntimes(S, i) ==
    IF i > Len(servers_config) THEN S
    ELSE IF ~servers_config[i].enabled \/ HasRuntime(S, servers_config[i].name)
         THEN AddRuntimes(S, i + 1)
         ELSE AddRuntimes(Append(S, NewRuntime(servers_config[i])), i + 1)

\* the _start_server coroutines submitted for the new runtimes
TaskCallbacks(S, from) ==
    [k \in 1..(Len(S) - from) |-> Callback("task", S[from + k].name, "main", 0, FALSE)]

\* the live stages of a server task: its session can be written to
Live == {"init_wait", "list_wait", "serving"}

\* the loop thread is inside the synchronous for loop of _start_server
LoopBusy == \E k \in 1..Len(_servers) : _servers[k].stage = "registering"

\* a caller thread ends its operation
AdFinish(t, r) ==
    [thr EXCEPT ![t] = [ThreadIdle EXCEPT !.ret = r, !.n = thr[t].n,
                                          !.closed = thr[t].closed]]

\* start() enters _aggregate_tools, which takes the lock
AggEnter ==
    /\ _tools' = _tools
    /\ thr' = [thr EXCEPT !["main"].pc = "agg", !["main"].i = 0, !["main"].pos = 0,
                          !["main"].used = 0]

\* a start() that does not look at self._closed
AdStartRestart ==
    /\ thr["main"].pc = "idle"
    /\ nAdOps' = nAdOps + 1
    /\ LET S == AddRuntimes(_servers, 1)
           fresh == _loop # "running" IN
       /\ _loop' = IF fresh THEN "created" ELSE _loop
       /\ nLoops' = IF fresh THEN nLoops + 1 ELSE nLoops
       /\ _servers' = S
       /\ ready' = (IF fresh THEN <<>> ELSE ready) \o TaskCallbacks(S, Len(_servers))
       /\ IF Len(S) = 0
          THEN /\ _tools' = <<>>
               /\ thr' = AdFinish("main", Ret("start", "return", "", JNull))
          ELSE /\ _tools' = _tools
               /\ thr' = [thr EXCEPT !["main"].pc = "wait", !["main"].i = 1]
    /\ UNCHANGED <<_closed, dispatched, namesVars, offVars, thVars, fnVars>>

AdStart ==
    /\ thr["main"].pc = "idle"
    /\ nAdOps' = nAdOps + 1
    /\ IF _closed
       THEN /\ thr' = AdFinish("main", Ret("start", "raise", "already shutdown", JNull))
            /\ UNCHANGED <<_loop, ready, _servers, _tools, nLoops>>
       ELSE LET S == AddRuntimes(_servers, 1)
                fresh == _loop # "running" IN
            /\ _loop' = IF fresh THEN "created" ELSE _loop
            /\ nLoops' = IF fresh THEN nLoops + 1 ELSE nLoops
            /\ _servers' = S
            /\ ready' = (IF fresh THEN <<>> ELSE ready) \o TaskCallbacks(S, Len(_servers))
            /\ IF Len(S) = 0
               THEN /\ _tools' = <<>>
                    /\ thr' = AdFinish("main", Ret("start", "return", "", JNull))
               ELSE /\ _tools' = _tools
                    /\ thr' = [thr EXCEPT !["main"].pc = "wait", !["main"].i = 1]
    /\ UNCHANGED <<_closed, dispatched, namesVars, offVars, thVars, fnVars>>

\* run_forever() starts in the loop thread
LoopRun ==
    /\ _loop = "created"
    /\ _loop' = "running"
    /\ UNCHANGED <<_closed, ready, _servers, _tools, thr, dispatched, nAdOps, nLoops,
                   namesVars, offVars, thVars, fnVars>>

\* one wait of start() ended (lines 78-82): the next wait, or _aggregate_tools
WaitEnded(how) ==
    LET i == thr["main"].i
        S == [_servers EXCEPT ![i].wait = how] IN
    /\ _servers' = S
    /\ IF i < Len(S)
       THEN /\ thr' = [thr EXCEPT !["main"].i = i + 1]
            /\ _tools' = _tools
       ELSE AggEnter
    /\ UNCHANGED <<_closed, _loop, ready, dispatched, nAdOps, nLoops, namesVars, offVars, thVars, fnVars>>

\* rt.started was set: wait_for returns and the future has its result
AdWaitOk ==
    /\ thr["main"].pc = "wait"
    /\ _loop = "running" /\ ~LoopBusy
    /\ _servers[thr["main"].i].started
    /\ WaitEnded("ok")

\* init_timeout passed without rt.started being set
AdWaitTimeout ==
    /\ thr["main"].pc = "wait"
    /\ _loop # "created"
    /\ ~_servers[thr["main"].i].started
    /\ WaitEnded("timeout")

\* the outer loop of _aggregate_tools from runtime k on, with registry T:
\* the iteration over rt.tools begins and yields its first item; a runtime
\* without tools is passed at once; after the last runtime start() returns
RECURSIVE AggFrom(_, _)
AggFrom(k, T) ==
    IF k > Len(_servers)
    THEN /\ _tools' = T
         /\ thr' = AdFinish("main", Ret("start", "return", "", JNull))
    ELSE IF _servers[k].tools = <<>>
    THEN AggFrom(k + 1, T)
    ELSE /\ _tools' = RegistryPut(T, Meta(_servers[k].name, _servers[k].tools[1]))
         /\ thr' = [thr EXCEPT !["main"].i = k, !["main"].pos = 1,
                               !["main"].used = Len(_servers[k].tools)]

\* one step of _aggregate_tools (lines 244-248): self._tools.clear() and the
\* first item, or the next item of the running iteration. The dict iterator
\* raises RuntimeError when rt.tools changed size since the iteration began.
AdAggNext ==
    LET i == thr["main"].i
        pos == thr["main"].pos IN
    /\ thr["main"].pc = "agg"
    /\ IF i = 0
       THEN AggFrom(1, <<>>)
       ELSE IF Len(_servers[i].tools) # thr["main"].used
       THEN /\ thr' = AdFinish("main", Ret("start", "raise", "RuntimeError", JNull))
            /\ _tools' = _tools
       ELSE IF pos < thr["main"].used
       THEN /\ _tools' = RegistryPut(_tools, Meta(_servers[i].name, _servers[i].tools[pos + 1]))
            /\ thr' = [thr EXCEPT !["main"].pos = pos + 1]
       ELSE AggFrom(i + 1, _tools)
    /\ UNCHANGED <<_closed, _loop, ready, _servers, dispatched, nAdOps, nLoops,
                   namesVars, offVars, thVars, fnVars>>

(***************************************************************************)
(* MCPAdapter.shutdown                                                     *)
(***************************************************************************)
\* shutdown() without the test of self._closed
AdShutdownBeginAgain ==
    /\ thr["main"].pc = "idle"
    /\ nAdOps' = nAdOps + 1
    /\ thr' = [thr EXCEPT !["main"].pc = "sd_sched", !["main"].closed = _closed]
    /\ _closed' = TRUE
    /\ UNCHANGED <<_loop, ready, _servers, _tools, dispatched, nLoops, namesVars, offVars, thVars, fnVars>>

\* the early return, or self._closed = True; the thread remembers the flag
\* it found
AdShutdownBegin ==
    /\ thr["main"].pc = "idle"
    /\ nAdOps' = nAdOps + 1
    /\ IF _closed
       THEN thr' = [thr EXCEPT !["main"] =
                       [ThreadIdle EXCEPT !.ret = Ret("shutdown", "return", "", JNull),
                                          !.n = thr["main"].n, !.closed = TRUE]]
       ELSE thr' = [thr EXCEPT !["main"].pc = "sd_sched", !["main"].closed = FALSE]
    /\ _closed' = TRUE
    /\ UNCHANGED <<_loop, ready, _servers, _tools, dispatched, nLoops, namesVars, offVars, thVars, fnVars>>

\* call_soon_threadsafe(rt.shutdown.set) for the runtimes with a session
RECURSIVE SetCallbacks(_)
SetCallbacks(k) ==
    IF k > Len(_servers) THEN <<>>
    ELSE IF _servers[k].session /\ ~_servers[k].shutdown /\ _loop = "running"
         THEN <<Callback("set_shutdown", _servers[k].name, "main", 0, FALSE)>>
                  \o SetCallbacks(k + 1)
         ELSE SetCallbacks(k + 1)

\* rt.task.cancel(): the cancellation of a task that has not finished is
\* passed to the loop thread
RECURSIVE CancelCallbacks(_)
CancelCallbacks(k) ==
    IF k > Len(_servers) THEN <<>>
    ELSE IF _servers[k].stage \in Live \cup {"new", "registering"}
         THEN <<Callback("cancel", _servers[k].name, "main", 0, FALSE)>>
                  \o CancelCallbacks(k + 1)
         ELSE CancelCallbacks(k + 1)

\* a shutdown that asks the loop to stop before it schedules the stop signals
AdShutdownScheduleStopFirst ==
    /\ thr["main"].pc = "sd_sched"
    /\ IF _loop = "none"
       THEN /\ ready' = ready
            /\ thr' = AdFinish("main", Ret("shutdown", "return", "", JNull))
       ELSE IF _loop = "closed"
       THEN /\ ready' = ready
            /\ thr' = AdFinish("main", Ret("shutdown", "raise", "Event loop is closed", JNull))
       ELSE /\ ready' = ready \o <<Callback("stop", "", "main", 0, FALSE)>>
                              \o SetCallbacks(1) \o CancelCallbacks(1)
            /\ thr' = [thr EXCEPT !["main"].pc = "sd_join"]
    /\ UNCHANGED <<_closed, _loop, _servers, _tools, dispatched, nAdOps, nLoops,
                   namesVars, offVars, thVars, fnVars>>

\* the stop signals, the cancellations, then loop.stop; call_soon_threadsafe
\* raises RuntimeError on a loop that was closed
AdShutdownSchedule ==
    /\ thr["main"].pc = "sd_sched"
    /\ IF _loop = "none"
       THEN /\ ready' = ready
            /\ thr' = AdFinish("main", Ret("shutdown", "return", "", JNull))
       ELSE IF _loop = "closed"
       THEN /\ ready' = ready
            /\ thr' = AdFinish("main", Ret("shutdown", "raise", "Event loop is closed", JNull))
       ELSE /\ ready' = ready \o SetCallbacks(1) \o CancelCallbacks(1)
                              \o <<Callback("stop", "", "main", 0, FALSE)>>
            /\ thr' = [thr EXCEPT !["main"].pc = "sd_join"]
    /\ UNCHANGED <<_closed, _loop, _servers, _tools, dispatched, nAdOps, nLoops,
                   namesVars, offVars, thVars, fnVars>>

\* self._loop_thread.join() without a timeout: it returns when the thread ended
AdShutdownJoinForever ==
    /\ thr["main"].pc = "sd_join"
    /\ _loop = "closed"
    /\ thr' = AdFinish("main", Ret("shutdown", "return", "", JNull))
    /\ UNCHANGED <<_closed, _loop, ready, _servers, _tools, dispatched, nAdOps, nLoops,
                   namesVars, offVars, thVars, fnVars>>

\* self._loop_thread.join(timeout=2) returns, the thread ended or not
AdShutdownJoin ==
    /\ thr["main"].pc = "sd_join"
    /\ thr' = AdFinish("main", Ret("shutdown", "return", "", JNull))
    /\ UNCHANGED <<_closed, _loop, ready, _servers, _tools, dispatched, nAdOps, nLoops,
                   namesVars, offVars, thVars, fnVars>>

(***************************************************************************)
(* MCPAdapter.call_tool                                                    *)
(***************************************************************************)
AdHasTool(q) == \E i \in 1..Len(_tools) : _tools[i].q = q

AdToolMeta(q) == _tools[CHOOSE i \in 1..Len(_tools) : _tools[i].q = q]

\* a block of CallToolResult.content with a text attribute
AdBlock(x) == J("obj", [type |-> JStr("text"), text |-> JStr(x)])

\* the CallToolResult objects a session may hand back
AdCallResults ==
    << [structured |-> JNull, content |-> J("list", <<AdBlock("42")>>)],
       [structured |-> J("dict", [result |-> JStr("7")]), content |-> J("list", <<>>)] >>

\* Python truth of a value
Truthy(j) ==
    CASE j.t = "null" -> FALSE
      [] j.t = "str" -> j.v # ""
      [] j.t = "list" -> Len(j.v) > 0
      [] j.t = "dict" -> DOMAIN j.v # {}
      [] j.t = "int" -> j.v # 0
      [] j.t = "bool" -> j.v
      [] OTHER -> TRUE

Plain == {"dict", "list", "str", "int", "float", "bool"}

\* hasattr(blk, key) and isinstance(getattr(blk, key), str): only an object
\* has attributes, a dict block has keys
HasStrAttr(blk, key) ==
    blk.t = "obj" /\ key \in DOMAIN blk.v /\ blk.v[key].t = "str"

\* the texts collected from the content blocks
RECURSIVE Texts(_)
Texts(content) ==
    IF content = <<>> THEN <<>>
    ELSE LET blk == Head(content) IN
         IF HasStrAttr(blk, "text")
         THEN <<blk.v["text"]>> \o Texts(Tail(content))
         ELSE IF HasStrAttr(blk, "value")
         THEN <<blk.v["value"]>> \o Texts(Tail(content))
         ELSE Texts(Tail(content))

\* getattr(call_result, 'content', []) or []
ContentsOf(r) == IF Truthy(r.content) THEN r.content ELSE J("list", <<>>)

\* the body of _parse_call_result; "for blk in contents" raises TypeError on
\* a value that is not iterable, which the except clause turns into an
\* error value
_parse_call_result(r) ==
    IF Truthy(r.structured) /\ r.structured.t \in Plain
    THEN IF /\ r.structured.t = "dict" /\ DOMAIN r.structured.v = {"result"}
            /\ r.structured.v["result"].t \in Plain
         THEN r.structured.v["result"]
         ELSE r.structured
    ELSE IF ContentsOf(r).t # "list"
    THEN ErrorValue("Failed to parse tool result")
    ELSE LET texts == Texts(ContentsOf(r).v) IN
         IF Len(texts) = 1 THEN texts[1]
         ELSE IF Len(texts) > 1 THEN J("dict", [content |-> J("list", texts)])
         ELSE IF Truthy(r.structured) THEN r.structured
         ELSE J("dict", [raw |-> JStr("repr")])

\* call_tool that submits the call and waits whether the registry has the
\* name or not
AdCallToolNoLookup(t, q) ==
    /\ thr[t].pc = "idle"
    /\ thr["main"].pc # "agg"
    /\ nAdOps' = nAdOps + 1
    /\ ready' = ready
    /\ thr' = [thr EXCEPT ![t].closed = _closed, ![t].n = @ + 1, ![t].pc = "call_wait",
                          ![t].fut = "queued", ![t].target = None]
    /\ UNCHANGED <<_closed, _loop, _servers, _tools, dispatched, nLoops, namesVars, offVars, thVars, fnVars>>

\* call_tool up to fut.result(): the registry is read under the lock, which
\* _aggregate_tools holds while it runs; self._closed is not consulted
AdCallTool(t, q) ==
    /\ thr[t].pc = "idle"
    /\ thr["main"].pc # "agg"
    /\ nAdOps' = nAdOps + 1
    /\ LET entered == [thr EXCEPT ![t].closed = _closed, ![t].n = @ + 1]
           done(err) == [entered EXCEPT ![t].ret = Ret("call", "return", err, ErrorValue(err))] IN
       IF ~AdHasTool(q)
       THEN thr' = done("Unknown tool") /\ ready' = ready
       ELSE LET name == AdToolMeta(q).server IN
            IF ~HasRuntime(_servers, name) \/ ~_servers[RtIndex(name)].session
            THEN thr' = done("not ready") /\ ready' = ready
            ELSE IF _loop = "closed"
            THEN \* run_coroutine_threadsafe raises RuntimeError, caught at line 144
                 thr' = done("Tool call failed") /\ ready' = ready
            ELSE /\ ready' = Append(ready, Callback("call", name, t, thr[t].n + 1, _closed))
                 /\ thr' = [entered EXCEPT ![t].pc = "call_wait", ![t].fut = "queued",
                                           ![t].target = name]
    /\ UNCHANGED <<_closed, _loop, _servers, _tools, dispatched, nLoops, namesVars, offVars, thVars, fnVars>>

\* the server answers the tools/call the session wrote
AdCallAnswer(t, r) ==
    /\ thr[t].pc = "call_wait" /\ thr[t].fut = "sent"
    /\ _loop = "running" /\ ~LoopBusy
    /\ _servers[RtIndex(thr[t].target)].stage \in Live
    /\ thr' = [thr EXCEPT ![t].fut = "result", ![t].res = r]
    /\ UNCHANGED <<_closed, _loop, ready, _servers, _tools, dispatched, nAdOps, nLoops,
                   namesVars, offVars, thVars, fnVars>>

\* fut.result() returned or raised what the coroutine raised
AdCallReturn(t) ==
    /\ thr[t].pc = "call_wait" /\ thr[t].fut \in {"result", "error"}
    /\ thr' = AdFinish(t, IF thr[t].fut = "result"
                          THEN Ret("call", "return", "", _parse_call_result(AdCallResults[thr[t].res]))
                          ELSE Ret("call", "return", "Tool call failed", ErrorValue("Tool call failed")))
    /\ UNCHANGED <<_closed, _loop, ready, _servers, _tools, dispatched, nAdOps, nLoops,
                   namesVars, offVars, thVars, fnVars>>

\* a timeout that takes the stuck server out of the server table and its
\* tools out of the registry
AdCallTimeoutReclaim(t) ==
    /\ thr[t].pc = "call_wait" /\ thr[t].fut \in {"queued", "sent"}
    /\ thr' = AdFinish(t, Ret("call", "return", "Tool call failed", ErrorValue("Tool call failed")))
    /\ _servers' = [k \in 1..Len(_servers) |->
                       IF _servers[k].name = thr[t].target
                       THEN [_servers[k] EXCEPT !.stage = "done", !.session = FALSE]
                       ELSE _servers[k]]
    /\ _tools' = <<>>
    /\ UNCHANGED <<_closed, _loop, ready, dispatched, nAdOps, nLoops,
                   namesVars, offVars, thVars, fnVars>>

\* fut.result(timeout=self.init_timeout) raised TimeoutError, caught at line 144
AdCallTimeout(t) ==
    /\ thr[t].pc = "call_wait" /\ thr[t].fut \in {"queued", "sent"}
    /\ thr' = AdFinish(t, Ret("call", "return", "Tool call failed", ErrorValue("Tool call failed")))
    /\ UNCHANGED <<_closed, _loop, ready, _servers, _tools, dispatched, nAdOps, nLoops,
                   namesVars, offVars, thVars, fnVars>>

(***************************************************************************)
(* The loop thread: _run_loop, the callbacks, the _start_server tasks      *)
(***************************************************************************)
\* the thread that submitted the call still waits for this very call
Awaited(cb) == thr[cb.tid].pc = "call_wait" /\ thr[cb.tid].n = cb.n

\* _start_server up to its first await: the process is spawned, the session
\* is stored in rt.session and initialize is sent; a spawn failure is caught
\* at line 236
TaskBegun(rt) ==
    IF rt.command = "ok"
    THEN [rt EXCEPT !.session = TRUE, !.stage = "init_wait"]
    ELSE [rt EXCEPT !.started = TRUE, !.stage = "failed"]

\* loop.stop(): run_forever returns, _run_loop cancels every task, lets the
\* cancellations run and closes the loop
Stopped(S) ==
    [k \in 1..Len(S) |->
        IF S[k].stage \in Live \cup {"new"} THEN [S[k] EXCEPT !.stage = "cancelled"]
        ELSE S[k]]

\* the loop runs the next callback
LoopStep ==
    /\ _loop = "running" /\ ~LoopBusy
    /\ ready # <<>>
    /\ LET cb == Head(ready)
           k == RtIndex(cb.name) IN
       CASE cb.kind = "task" ->
              /\ _servers' = [_servers EXCEPT ![k] = TaskBegun(@)]
              /\ ready' = Tail(ready)
              /\ UNCHANGED <<_loop, thr, dispatched>>
         [] cb.kind = "set_shutdown" ->
              /\ _servers' = [_servers EXCEPT ![k].shutdown = TRUE,
                                              ![k].stage = IF @ = "serving" THEN "done" ELSE @]
              /\ ready' = Tail(ready)
              /\ UNCHANGED <<_loop, thr, dispatched>>
         [] cb.kind = "cancel" ->
              /\ _servers' = [_servers EXCEPT ![k].stage = IF @ \in Live THEN "cancelled" ELSE @]
              /\ ready' = Tail(ready)
              /\ UNCHANGED <<_loop, thr, dispatched>>
         [] cb.kind = "stop" ->
              /\ _loop' = "closed"
              /\ _servers' = Stopped(_servers)
              /\ ready' = <<>>
              /\ UNCHANGED <<thr, dispatched>>
         [] cb.kind = "call" ->
              \* session.call_tool writes the request while the session is open
              /\ ready' = Tail(ready)
              /\ IF _servers[k].stage \in Live
                 THEN /\ dispatched' = Append(dispatched,
                             [name |-> cb.name, tid |-> cb.tid, closed |-> cb.closed,
                              stage |-> _servers[k].stage])
                      /\ thr' = IF Awaited(cb) THEN [thr EXCEPT ![cb.tid].fut = "sent"] ELSE thr
                 ELSE /\ dispatched' = dispatched
                      /\ thr' = IF Awaited(cb) THEN [thr EXCEPT ![cb.tid].fut = "error"] ELSE thr
              /\ UNCHANGED <<_loop, _servers>>
    /\ UNCHANGED <<_closed, _tools, nAdOps, nLoops, namesVars, offVars, thVars, fnVars>>

\* the task of runtime k goes on by one step
TaskStep(k, rt) ==
    /\ _loop = "running" /\ ~LoopBusy
    /\ _servers' = [_servers EXCEPT ![k] = rt]
    /\ UNCHANGED <<_closed, _loop, ready, _tools, thr, dispatched, nAdOps, nLoops,
                   namesVars, offVars, thVars, fnVars>>

\* session.initialize() returned: session.list_tools() is sent
AdInitOk(k) ==
    /\ _servers[k].stage = "init_wait"
    /\ TaskStep(k, [_servers[k] EXCEPT !.stage = "list_wait"])

\* session.initialize() raised: line 236 logs it and sets rt.started
AdInitFail(k) ==
    /\ _servers[k].stage = "init_wait"
    /\ TaskStep(k, [_servers[k] EXCEPT !.stage = "failed", !.started = TRUE])

\* session.list_tools() returned: the for loop of line 223 begins
AdListOk(k) ==
    /\ _servers[k].stage = "list_wait"
    /\ TaskStep(k, [_servers[k] EXCEPT !.stage = "registering"])

\* session.list_tools() raised: line 232 logs it, rt.started is set
AdListFail(k) ==
    /\ _servers[k].stage = "list_wait"
    /\ TaskStep(k, [_servers[k] EXCEPT !.stage = "serving", !.started = TRUE])

\* rt.tools[t.name] = {...} for the next tool of the reply, without the lock;
\* after the last one rt.started is set and the task awaits rt.shutdown
AdRegister(k) ==
    LET rt == _servers[k]
        n == Len(rt.tools) + 1
        last == n = Len(AdCatalog(rt.name)) IN
    /\ rt.stage = "registering"
    /\ _loop = "running"
    /\ _servers' = [_servers EXCEPT ![k].tools = Append(@, AdCatalog(rt.name)[n]),
                                    ![k].started = last,
                                    ![k].stage = IF last THEN "serving" ELSE @]
    /\ UNCHANGED <<_closed, _loop, ready, _tools, thr, dispatched, nAdOps, nLoops,
                   namesVars, offVars, thVars, fnVars>>

(***************************************************************************)
(* SpecAdapter                                                             *)
(***************************************************************************)
InitAdapter ==
    /\ tools = <<>>
    /\ function_name_map = EmptyDict
    /\ spec = <<>>
    /\ resolved = None
    /\ op = "init"
    /\ \E config \in Configs : OfficialConstructed(config)
    /\ AdapterConstructed
    /\ FunctionsIdle

NextAdapter ==
    \/ nAdOps < AdMaxOps /\ AdStart
    \/ nAdOps < AdMaxOps /\ AdShutdownBegin
    \/ \E t \in Threads, q \in CallTargets : nAdOps < AdMaxOps /\ AdCallTool(t, q)
    \/ LoopRun
    \/ AdWaitOk
    \/ AdWaitTimeout
    \/ AdAggNext
    \/ AdShutdownSchedule
    \/ AdShutdownJoin
    \/ \E t \in Threads, r \in 1..Len(AdCallResults) : AdCallAnswer(t, r)
    \/ \E t \in Threads : AdCallReturn(t)
    \/ \E t \in Threads : AdCallTimeout(t)
    \/ LoopStep
    \/ \E k \in 1..Len(_servers) : AdInitOk(k)
    \/ \E k \in 1..Len(_servers) : AdInitFail(k)
    \/ \E k \in 1..Len(_servers) : AdListOk(k)
    \/ \E k \in 1..Len(_servers) : AdListFail(k)
    \/ \E k \in 1..Len(_servers) : AdRegister(k)

SpecAdapter == InitAdapter /\ [][NextAdapter]_vars

(***************************************************************************)
(* C2: once shutdown() has begun, no tools/call is written to a server     *)
(* session for a call_tool that was invoked afterwards, and every such     *)
(* call_tool returns an error value.                                       *)
(***************************************************************************)
C2_NoDispatchAfterShutdown ==
    /\ \A i \in 1..Len(dispatched) : ~dispatched[i].closed
    /\ \A t \in Threads :
          (thr[t].pc = "idle" /\ thr[t].ret.op = "call" /\ thr[t].closed) =>
              (thr[t].ret.kind = "return" /\ thr[t].ret.err # "")

(***************************************************************************)
(* C7: if one enabled server never answers its handshake, start() still    *)
(* returns, and on return the registry holds the tools of every other      *)
(* server whose wait ended with discovery completed.                       *)
(***************************************************************************)
C7_StartReturnsDespiteSilentServer ==
    (/\ thr["main"].pc = "idle" /\ thr["main"].ret.op = "start" /\ ~_closed
     /\ \E k \in 1..Len(_servers) :
           _servers[k].stage = "init_wait" /\ _servers[k].wait = "timeout") =>
        /\ thr["main"].ret.kind = "return"
        /\ \A k \in 1..Len(_servers) :
              _servers[k].wait = "ok" =>
                  \A j \in 1..Len(_servers[k].tools) :
                      \E i \in 1..Len(_tools) :
                          _tools[i].q = Qualified(_servers[k].name, _servers[k].tools[j])

(***************************************************************************)
(* SpecThreads: several caller threads inside MCPOfficialManager.call_tool *)
(* on one started server. _send takes no lock, so its statements           *)
(* interleave with those of the other thread.                              *)
(***************************************************************************)
MaxThreadCalls == 3

\* the manager after start() on a config with a disabled entry and the
\* server "a", which accepted the first initialize variant and listed its
\* tool "b" at once
StartedOneServer ==
    /\ servers_config = << [name |-> "c", enabled |-> FALSE, command |-> "ok"],
                           [name |-> "a", enabled |-> TRUE, command |-> "ok"] >>
    /\ servers = DictSet(EmptyDict, "a", [NewHandle(1) EXCEPT !.next_id = 2])
    /\ procs = << [NewProc("a") EXCEPT
                     !.wire = << [method |-> "initialize", id |-> 0, v |-> 1],
                                 [method |-> "notifications/initialized", id |-> -1, v |-> 0],
                                 [method |-> "tools/list", id |-> 1, v |-> 1] >>,
                     !.init = "accepted", !.notif_calls = 1,
                     !.list = "found", !.found = 1] >>
    /\ tools = <<Meta("a", "b")>>
    /\ pc = "idle" /\ idx = 0 /\ cur = None /\ variant = 0
    /\ msg_id = 1
    /\ ret = Ret("start", "return", "", JNull)
    /\ delivered = [pid |-> 1, msg_id |-> 1, req |-> 3,
                    msg |-> [id |-> 1, re |-> 3, from |-> 1,
                             body |-> J("list", Catalog("a"))]]
    /\ calls = <<>>
    /\ nOps = 1 /\ nExits = 0 /\ nStale = 0 /\ nFail = 0

InitThreads ==
    /\ function_name_map = EmptyDict
    /\ spec = <<>>
    /\ resolved = None
    /\ op = "init"
    /\ StartedOneServer
    /\ callers = [t \in Callers |-> CallerIdle]
    /\ AdapterConstructed
    /\ FunctionsIdle

ThreadTargets == {"a:b", "a:forecast"}

\* the caller threads change nothing but the handle, the pipe and themselves
ThreadFrame ==
    UNCHANGED <<servers_config, pc, idx, cur, variant, msg_id, ret, delivered, calls,
                nExits, nStale, nFail, namesVars, adVars, fnVars>>

\* call_tool up to the call of _send
TCallTool(t, q) ==
    /\ callers[t].pc = "idle"
    /\ nOps' = nOps + 1
    /\ IF ~HasTool(q)
       THEN callers' = [callers EXCEPT ![t] = [CallerIdle EXCEPT !.result = "Unknown tool"]]
       ELSE IF ToolMeta(q).server \notin DOMAIN servers
       THEN callers' = [callers EXCEPT ![t] = [CallerIdle EXCEPT !.result = "not running"]]
       ELSE callers' = [callers EXCEPT ![t] = [CallerIdle EXCEPT !.pc = "send_id"]]
    /\ UNCHANGED <<servers, procs>>
    /\ ThreadFrame

\* _send: msg_id = handle.next_id
TSendId(t) ==
    /\ callers[t].pc = "send_id"
    /\ callers' = [callers EXCEPT ![t].msg_id = servers["a"].next_id, ![t].pc = "send_load"]
    /\ UNCHANGED <<servers, procs, nOps>>
    /\ ThreadFrame

\* _send, handle.next_id += 1: the attribute is read ...
TSendLoad(t) ==
    /\ callers[t].pc = "send_load"
    /\ callers' = [callers EXCEPT ![t].tmp = servers["a"].next_id, ![t].pc = "send_store"]
    /\ UNCHANGED <<servers, procs, nOps>>
    /\ ThreadFrame

\* ... and the sum is stored
TSendStore(t) ==
    /\ callers[t].pc = "send_store"
    /\ servers' = [servers EXCEPT !["a"].next_id = callers[t].tmp + 1]
    /\ callers' = [callers EXCEPT ![t].pc = "send_write"]
    /\ UNCHANGED <<procs, nOps>>
    /\ ThreadFrame

\* _send: the line is written to the server's stdin and flushed
TSendWrite(t) ==
    /\ callers[t].pc = "send_write"
    /\ IF PipeOpen(procs, 1)
       THEN /\ procs' = [procs EXCEPT
                           ![1].wire = Append(@, [method |-> "tools/call",
                                                  id |-> callers[t].msg_id, v |-> 0]),
                           ![1].pending = @ \cup {Len(procs[1].wire) + 1}]
            /\ callers' = [callers EXCEPT ![t].pc = "wait"]
       ELSE /\ procs' = procs
            /\ callers' = [callers EXCEPT ![t] = [CallerIdle EXCEPT !.result = "raise"]]
    /\ UNCHANGED <<servers, nOps>>
    /\ ThreadFrame

\* one turn of _wait_for: the first message of the shared queue is taken;
\* it is returned when it has the awaited id and dropped otherwise
TWaitGet(t) ==
    LET q == servers["a"].stdout_queue IN
    /\ callers[t].pc = "wait"
    /\ Len(q) > 0
    /\ servers' = [servers EXCEPT !["a"].stdout_queue = Tail(@)]
    /\ IF WaitMatches(Head(q), callers[t].msg_id)
       THEN callers' = [callers EXCEPT ![t] = [CallerIdle EXCEPT !.result = "return",
                                                                 !.msg_id = callers[t].msg_id,
                                                                 !.got = Head(q).re]]
       ELSE callers' = callers
    /\ UNCHANGED <<procs, nOps>>
    /\ ThreadFrame

\* the 30 seconds of _wait_for passed: no message with the awaited id is
\* on the queue
TWaitTimeout(t) ==
    LET q == servers["a"].stdout_queue IN
    /\ callers[t].pc = "wait"
    /\ \A i \in 1..Len(q) : ~WaitMatches(q[i], callers[t].msg_id)
    /\ callers' = [callers EXCEPT ![t] = [CallerIdle EXCEPT !.result = "timeout",
                                                            !.msg_id = callers[t].msg_id]]
    /\ UNCHANGED <<servers, procs, nOps>>
    /\ ThreadFrame

NextThreads ==
    \/ \E t \in Callers, q \in ThreadTargets : nOps < MaxThreadCalls + 1 /\ TCallTool(t, q)
    \/ \E t \in Callers : TSendId(t)
    \/ \E t \in Callers : TSendLoad(t)
    \/ \E t \in Callers : TSendStore(t)
    \/ \E t \in Callers : TSendWrite(t)
    \/ \E t \in Callers : TWaitGet(t)
    \/ \E t \in Callers : TWaitTimeout(t)
    \/ \E i \in procs[1].pending : ServerReply(1, i, 1)
    \/ ServerExit(1)

SpecThreads == InitThreads /\ [][NextThreads]_vars

(***************************************************************************)
(* C11: no two requests written to the same server carry the same id, for  *)
(* any interleaving of the caller threads.                                 *)
(***************************************************************************)
C11_RequestIdsUnique ==
    \A pid \in Pids :
        \A i, j \in 1..Len(procs[pid].wire) :
            (/\ procs[pid].wire[i].id # -1
             /\ procs[pid].wire[i].id = procs[pid].wire[j].id) => i = j

(***************************************************************************)
(* C12: shutdown() is idempotent and safe in every lifecycle state: called *)
(* before any start(), or a second time after a first shutdown(), it does  *)
(* not raise, and the second call changes no adapter state and schedules   *)
(* nothing further on the loop.                                            *)
(***************************************************************************)
ShutdownReturned == thr'["main"].pc = "idle"
                    /\ thr'["main"].ret = Ret("shutdown", "return", "", JNull)

C12_ShutdownIdempotent ==
    [][ /\ (AdShutdownBegin /\ _closed) =>
              /\ ShutdownReturned
              /\ UNCHANGED <<_closed, _loop, ready, _servers, _tools, dispatched>>
        /\ (AdShutdownSchedule /\ _loop = "none") =>
              /\ ShutdownReturned
              /\ UNCHANGED <<_closed, _loop, ready, _servers, _tools, dispatched>>
        /\ \A t \in Threads :
              thr'[t].ret.op = "shutdown" => thr'[t].ret.kind = "return" ]_vars

\* a second shutdown() of an adapter that started servers has returned
C12_Witness ==
    /\ thr["main"].pc = "idle"
    /\ thr["main"].ret.op = "shutdown"
    /\ thr["main"].closed
    /\ Len(_servers) > 0

(***************************************************************************)
(* C13: after shutdown() returns, no server task started by the adapter is *)
(* still running, a server that was still in its handshake included.       *)
(***************************************************************************)
\* the task of the runtime has not ended: it is scheduled, in its
\* handshake, registering tools or serving
TaskRunning(rt) == rt.stage \in Live \cup {"new", "registering"}

C13_NothingRunsAfterShutdown ==
    (thr["main"].pc = "idle" /\ thr["main"].ret.op = "shutdown") =>
        \A k \in 1..Len(_servers) : ~TaskRunning(_servers[k])

(***************************************************************************)
(* SpecAdapterFair: the thread that called shutdown() keeps running: its   *)
(* scheduling statements do not block and the join ends after 2 seconds at *)
(* the latest. Nothing is assumed of the loop thread or of the servers.    *)
(***************************************************************************)
SpecAdapterFair ==
    /\ InitAdapter
    /\ [][NextAdapter]_vars
    /\ WF_vars(AdShutdownSchedule)
    /\ WF_vars(AdShutdownJoin)

(***************************************************************************)
(* C14: shutdown() always returns to its caller, even when a server task   *)
(* never finishes or the loop thread fails to stop within the bounded join.*)
(***************************************************************************)
C14_ShutdownReturns ==
    (thr["main"].pc \in {"sd_sched", "sd_join"})
        ~> (thr["main"].pc = "idle" /\ thr["main"].ret.op = "shutdown")

\* shutdown() has returned although the loop thread did not stop and a
\* server task has not finished
C14_Witness ==
    /\ thr["main"].pc = "idle"
    /\ thr["main"].ret.op = "shutdown"
    /\ _loop = "running"
    /\ \E k \in 1..Len(_servers) : _servers[k].stage \in Live

(***************************************************************************)
(* C15: build_openai_tools_spec exposes a tool under its bare local name   *)
(* when exactly one registry entry has that local name, and under          *)
(* <server>_<localname> when two or more servers expose that local name.   *)
(***************************************************************************)
\* the registry entries that have the local name of entry i
SameLocalName(i) == {j \in 1..Len(tools) : tools[j].name = tools[i].name}

C15_ExposedNameRule ==
    op = "build" =>
        /\ Len(spec) = Len(tools)
        /\ \A i \in 1..Len(tools) :
              /\ Cardinality(SameLocalName(i)) = 1 => spec[i].name = tools[i].name
              /\ Cardinality(SameLocalName(i)) >= 2 =>
                    spec[i].name = tools[i].server \o "_" \o tools[i].name

\* two servers expose b and one exposes forecast
C15_Witness ==
    /\ op = "build"
    /\ \E i, j, k \in 1..Len(spec) :
          /\ tools[i].name = "b" /\ tools[j].name = "b" /\ i # j
          /\ spec[i].name = tools[i].server \o "_b"
          /\ spec[j].name = tools[j].server \o "_b"
          /\ tools[k].name = "forecast" /\ spec[k].name = "forecast"

(***************************************************************************)
(* C16: after build_openai_tools_spec, resolve_function_name(n) returns,   *)
(* for every exposed name n in the returned spec, the qualified name of    *)
(* the very tool that spec entry was built from, and returns None, without *)
(* raising and without changing any state, for every other name.           *)
(***************************************************************************)
C16_ResolveReturnsSource ==
    [][ \A n \in ExposedCandidates :
          ResolveFunctionName(n) =>
              /\ \A i \in 1..Len(spec) : spec[i].name = n => resolved' = spec[i].src
              /\ (\A i \in 1..Len(spec) : spec[i].name # n) => resolved' = None
              /\ UNCHANGED <<tools, function_name_map, spec>> ]_vars

(***************************************************************************)
(* C17: call_tool with a name that is not in the registry returns an       *)
(* unknown-tool error value immediately: no request is sent to any server, *)
(* nothing is scheduled on the loop, and no wait with timeout is entered.  *)
(***************************************************************************)
C17_UnknownToolImmediate ==
    [][ \A t \in Threads, q \in CallTargets :
          (AdCallTool(t, q) /\ ~AdHasTool(q)) =>
              /\ thr'[t].pc = "idle"
              /\ thr'[t].ret = Ret("call", "return", "Unknown tool", ErrorValue("Unknown tool"))
              /\ UNCHANGED <<ready, dispatched, _servers, _tools, _loop, _closed>> ]_vars

\* a started adapter with a registry has answered a name it does not hold
C17_Witness ==
    /\ _tools # <<>>
    /\ _loop = "running"
    /\ \E t \in Threads : thr[t].pc = "idle" /\ thr[t].ret.err = "Unknown tool"

(***************************************************************************)
(* C18: call_tool verifies the owning server is ready before delegating: a *)
(* tools/call is never dispatched to a server whose initialize handshake   *)
(* has not completed successfully, and a call targeting such a server      *)
(* returns a server-not-ready error value instead.                         *)
(***************************************************************************)
\* the server a qualified name belongs to
TargetServer(q) ==
    CHOOSE s \in ServerNames : \E n \in ToolNames : Qualified(s, n) = q

\* the runtime exists and its initialize has not been answered
HandshakePending(s) ==
    HasRuntime(_servers, s) /\ _servers[RtIndex(s)].stage \in {"new", "init_wait"}

\* no request went to a session before its initialize was answered
DispatchedAfterInitialize ==
    \A i \in 1..Len(dispatched) : dispatched[i].stage \notin {"new", "init_wait"}

C19_ListOnlyAfterInitialize ==
    /\ \A pid \in Pids :
          LET lists == MethodOnWire(pid, "tools/list")
              inits == MethodOnWire(pid, "initialize") IN
          /\ lists # {} =>
                /\ procs[pid].init = "accepted"
                /\ \A l \in lists, i \in inits : i < l
          /\ procs[pid].init = "failed" => lists = {}
    /\ pc \in {"list_send", "list_wait"} => procs[servers[cur].pid].init = "accepted"

\* start() is over: one server refused the three variants and got no
\* tools/list, another accepted and was asked for its tools
C19_Witness ==
    /\ StartEnded
    /\ \E p1, p2 \in Pids :
          /\ procs[p1].init = "failed"
          /\ Cardinality(MethodOnWire(p1, "initialize")) = InitVariants
          /\ MethodOnWire(p1, "tools/list") = {}
          /\ procs[p2].init = "accepted"
          /\ MethodOnWire(p2, "tools/list") # {}

(***************************************************************************)
(* C20: _list_tools tries its parameter variants in list order and stops   *)
(* at the first variant whose reply contains a non-empty tool array (no    *)
(* later variant is sent); if every variant times out, errors or returns   *)
(* an empty array, the server ends with zero registered tools and          *)
(* _list_tools returns normally without raising.                           *)
(***************************************************************************)
\* start() is inside _list_tools for process pid
InListTools(pid) ==
    pc \in {"list_send", "list_wait"} /\ servers[cur].pid = pid

C20_ListVariants ==
    \A pid \in Pids :
        LET w == procs[pid].wire
            lists == MethodOnWire(pid, "tools/list")
            name == procs[pid].name IN
        /\ Cardinality(lists) <= ListVariants
        /\ \A i \in lists : w[i].v = Cardinality({j \in lists : j <= i})
        /\ procs[pid].list = "found" =>
              /\ Cardinality(lists) = procs[pid].found
              /\ ~InListTools(pid)
        /\ procs[pid].list = "exhausted" =>
              /\ ~InListTools(pid)
              /\ (name \in DOMAIN servers /\ servers[name].pid = pid) => ToolsOf(name) = {}
              /\ pc # "idle" => servers[cur].pid > pid

\* the first variant got an empty array, the second an error, the third
\* held tools and nothing was sent after it
C20_Witness ==
    \E pid \in Pids :
        /\ procs[pid].list = "found" /\ procs[pid].found = 3
        /\ Cardinality(MethodOnWire(pid, "tools/list")) = 3
        /\ StartEnded
        /\ ToolsOf(procs[pid].name) # {}

(***************************************************************************)
(* SpecNormalize: the two result normalizers, MCPAdapter._parse_call_result*)
(* and the tail of MCPOfficialManager.call_tool, applied to the replies a  *)
(* server may give to a successful tools/call.                             *)
(***************************************************************************)
\* a content block without text: ImageContent
ImageBlock == J("obj", [type |-> JStr("image"), data |-> JStr("iVBOR")])

\* a block whose text lies in the attribute value
ValueBlock(x) == J("obj", [type |-> JStr("text"), value |-> JStr(x)])

\* structuredContent of the reply
Structureds ==
    << JNull,
       J("dict", [result |-> JStr("7")]),
       J("dict", [result |-> J("dict", [x |-> J("int", 1)])]),
       J("dict", [result |-> JNull]),
       J("dict", [result |-> J("int", 0)]),
       J("dict", [x |-> J("int", 1)]),
       J("dict", [result |-> JStr("7"), x |-> J("int", 1)]),
       J("dict", EmptyDict),
       JStr("s"),
       J("list", <<J("int", 1)>>),
       J("obj", [x |-> J("int", 1)]) >>

\* content of the reply
Contents ==
    << J("list", <<>>),
       J("list", <<AdBlock("42")>>),
       J("list", <<AdBlock("a"), AdBlock("b")>>),
       J("list", <<ValueBlock("v")>>),
       J("list", <<ImageBlock>>),
       J("list", <<AdBlock("a"), ImageBlock, AdBlock("b")>>),
       J("list", <<J("obj", [type |-> JStr("text"), text |-> J("int", 1)])>>),
       JNull,
       J("int", 5) >>

\* the result member of the JSON-RPC reply that the SDK parsed into the
\* CallToolResult r: the blocks are JSON objects, and a structuredContent
\* of None is left out
AsJsonBlocks(c) ==
    IF c.t = "list" THEN J("list", [i \in 1..Len(c.v) |-> J("dict", c.v[i].v)]) ELSE c

AsJson(r) ==
    IF r.structured.t = "null"
    THEN J("dict", [content |-> AsJsonBlocks(r.content)])
    ELSE J("dict", [content |-> AsJsonBlocks(r.content),
                    structuredContent |-> r.structured])

InitNormalize ==
    /\ tools = <<>>
    /\ function_name_map = EmptyDict
    /\ spec = <<>>
    /\ resolved = None
    /\ op = "init"
    /\ OfficialConstructed(<<>>)
    /\ AdapterConstructed
    /\ \E i \in 1..Len(Structureds), j \in 1..Len(Contents) :
          call_result = [structured |-> Structureds[i], content |-> Contents[j]]
    /\ normalized = JNull
    /\ via = "none"
    /\ ReaderIdle
    /\ ExtIdle

\* return self._parse_call_result(result) at the end of MCPAdapter.call_tool
ParseCallResult ==
    /\ via = "none"
    /\ normalized' = _parse_call_result(call_result)
    /\ via' = "adapter"
    /\ UNCHANGED <<call_result, rdVars, extVars, namesVars, offVars, adVars, thVars>>

\* the unwrapping at the end of MCPOfficialManager.call_tool
UnwrapCallResult ==
    /\ via = "none"
    /\ normalized' = UnwrapResult(AsJson(call_result))
    /\ via' = "official"
    /\ UNCHANGED <<call_result, rdVars, extVars, namesVars, offVars, adVars, thVars>>

NextNormalize ==
    \/ ParseCallResult
    \/ UnwrapCallResult

SpecNormalize == InitNormalize /\ [][NextNormalize]_vars

(***************************************************************************)
(* C21: when a successful call reply carries several textual content       *)
(* blocks and no structured result, the normalized value is the ordered    *)
(* list of the blocks' text strings: content [{text:"a"},{text:"b"}]       *)
(* normalizes to the list ["a","b"].                                       *)
(***************************************************************************)
\* every block of the content list has a text string, and there are several
SeveralTextBlocks(c) ==
    /\ c.t = "list" /\ Len(c.v) > 1
    /\ \A i \in 1..Len(c.v) : "text" \in DOMAIN c.v[i].v /\ c.v[i].v["text"].t = "str"

C21_TextBlocksAsList ==
    (/\ via # "none"
     /\ call_result.structured.t = "null"
     /\ SeveralTextBlocks(call_result.content)) =>
        /\ normalized.t = "list"
        /\ Len(normalized.v) = Len(call_result.content.v)
        /\ \A i \in 1..Len(normalized.v) :
              /\ normalized.v[i].t = "str"
              /\ normalized.v[i].v = call_result.content.v[i].v["text"].v

(***************************************************************************)
(* C22: when a successful call reply carries a structured result object    *)
(* with exactly one key "result", the normalizer unwraps it and returns    *)
(* the inner value whatever that inner value is; any other structured      *)
(* object is returned as-is.                                               *)
(***************************************************************************)
\* two JSON values are the same value of the same type
JEq(a, b) == a.t = b.t /\ a.v = b.v

C22_StructuredUnwrap ==
    (via = "adapter" /\ call_result.structured.t = "dict") =>
        IF DOMAIN call_result.structured.v = {"result"}
        THEN JEq(normalized, call_result.structured.v["result"])
        ELSE JEq(normalized, call_result.structured)

(***************************************************************************)
(* C23: the result normalizer never raises for any reply shape; a reply    *)
(* with neither a structured result nor a textual content block, or with   *)
(* an unexpected shape, yields the opaque fallback representation of the   *)
(* raw reply.                                                              *)
(***************************************************************************)
\* the content holds no block with a text or value string: it is not a list
\* at all, or none of its blocks is textual
NoTextualBlock(c) ==
    c.t = "list" => \A i \in 1..Len(c.v) :
                       ~HasStrAttr(c.v[i], "text") /\ ~HasStrAttr(c.v[i], "value")

\* {"raw": repr(call_result)}
IsRawFallback(j) == j.t = "dict" /\ DOMAIN j.v = {"raw"}

MaxUnits == 3

\* the messages a server sends: an id and a text, as the JSON object
\* {"id": id, "text": text}
MsgIds == {"a", "b"}

MsgTexts == {<<>>, <<"U">>}

Msgs == [id : MsgIds, text : MsgTexts]

\* json.dumps(msg, ensure_ascii=False) on the server side
JsonDumps(m) == <<"{", m.id>> \o m.text \o <<"}">>

\* len(text.encode("utf-8"))
RECURSIVE Utf8Len(_)
Utf8Len(cs) ==
    IF cs = <<>> THEN 0
    ELSE (IF Head(cs) = "U" THEN 2 ELSE 1) + Utf8Len(Tail(cs))

Digits == <<"1", "2", "3", "4", "5", "6", "7", "8", "9">>

\* a frame: the header line with the length n, the blank line, the body
FrameOf(n, body) == <<"#", Digits[n], "\n", "\n">> \o body

\* what a server may write: a well-formed frame (the length is the number of
\* bytes of the body), a frame whose length value is not a number, a frame
\* whose body is one byte shorter than declared, a frame whose body is not
\* JSON
UnitKinds == {"frame", "bad_length", "short_body", "bad_json"}

Units == [kind : UnitKinds, msg : Msgs]

UnitChars(u) ==
    LET body == JsonDumps(u.msg) IN
    CASE u.kind = "frame" -> FrameOf(Utf8Len(body), body)
      [] u.kind = "bad_length" -> <<"#", "x", "\n", "\n">> \o body
      [] u.kind = "short_body" -> FrameOf(Utf8Len(body) + 1, body)
      [] u.kind = "bad_json" -> FrameOf(Utf8Len(body), <<"}">> \o Tail(body))

RECURSIVE StreamOf(_)
StreamOf(us) == IF us = <<>> THEN <<>> ELSE UnitChars(Head(us)) \o StreamOf(Tail(us))

\* stream.readline(): up to and with the next "\n", or the rest at EOF
NlPos(cs) ==
    IF \E i \in 1..Len(cs) : cs[i] = "\n"
    THEN CHOOSE i \in 1..Len(cs) : cs[i] = "\n" /\ \A j \in 1..(i - 1) : cs[j] # "\n"
    ELSE Len(cs)

ReadLine(cs) == SubSeq(cs, 1, NlPos(cs))

\* stream.read(n): n characters, fewer at EOF
ReadChars(cs, n) == SubSeq(cs, 1, IF n < Len(cs) THEN n ELSE Len(cs))

Rest(cs, k) == SubSeq(cs, k + 1, Len(cs))

\* str.rstrip("\r\n") and str.strip()
RECURSIVE RStrip(_)
RStrip(cs) ==
    IF cs # <<>> /\ cs[Len(cs)] = "\n" THEN RStrip(SubSeq(cs, 1, Len(cs) - 1)) ELSE cs

RECURSIVE LStrip(_)
LStrip(cs) == IF cs # <<>> /\ Head(cs) = "\n" THEN LStrip(Tail(cs)) ELSE cs

Strip(cs) == LStrip(RStrip(cs))

\* int(v.strip()): the value, or -1 when int raises ValueError
DigitVal(c) == CHOOSE d \in 1..9 : Digits[d] = c

IsDigit(c) == \E d \in 1..9 : Digits[d] = c

RECURSIVE IntOf(_, _)
IntOf(cs, acc) ==
    IF cs = <<>> THEN acc
    ELSE IF IsDigit(Head(cs)) THEN IntOf(Tail(cs), 10 * acc + DigitVal(Head(cs)))
    ELSE -1

ParseInt(cs) == IF Strip(cs) = <<>> THEN -1 ELSE IntOf(Strip(cs), 0)

\* json.loads(line) in _wait_for: the message, or "error" for JSONDecodeError
JsonLoads(cs) ==
    IF /\ Len(cs) >= 3 /\ cs[1] = "{" /\ cs[Len(cs)] = "}" /\ cs[2] \in MsgIds
       /\ SubSeq(cs, 3, Len(cs) - 1) \in MsgTexts
    THEN [ok |-> TRUE, msg |-> [id |-> cs[2], text |-> SubSeq(cs, 3, Len(cs) - 1)]]
    ELSE [ok |-> FALSE, msg |-> [id |-> "", text |-> <<>>]]

InitReader ==
    /\ tools = <<>>
    /\ function_name_map = EmptyDict
    /\ spec = <<>>
    /\ resolved = None
    /\ op = "init"
    /\ OfficialConstructed(<<>>)
    /\ AdapterConstructed
    /\ NormalizerIdle
    /\ ExtIdle
    /\ \E n \in 1..MaxUnits : \E us \in [1..n -> Units] :
          units = us /\ stream = StreamOf(us)
    /\ reading = TRUE
    /\ rq = <<>>
    /\ decoded = <<>>

\* one turn of the while loop of _reader
ReaderTurn ==
    LET line == ReadLine(stream)
        rest1 == Rest(stream, Len(line))
        ls == RStrip(line)
        length == ParseInt(Tail(ls))
        blank == ReadLine(rest1)
        rest2 == Rest(rest1, Len(blank))
        body == ReadChars(rest2, length)
        rest3 == Rest(rest2, Len(body))
        candidate == Strip(ls) IN
    /\ reading
    /\ IF line = <<>>
       THEN \* EOF
            reading' = FALSE /\ stream' = stream /\ rq' = rq
       ELSE /\ reading' = TRUE
            /\ IF ls # <<>> /\ Head(ls) = "#"
               THEN IF length < 0
                    THEN \* malformed header: continue
                         stream' = rest1 /\ rq' = rq
                    ELSE /\ stream' = rest3
                         /\ rq' = IF body = <<>> THEN rq ELSE Append(rq, Strip(body))
               ELSE /\ stream' = rest1
                    /\ rq' = IF candidate # <<>> /\ Head(candidate) = "{"
                             THEN Append(rq, candidate) ELSE rq
    /\ UNCHANGED <<units, decoded, nzVars, extVars, namesVars, offVars, adVars, thVars>>

\* one turn of the loop of _wait_for: the next string of the queue is
\* parsed; a string that is not JSON is passed over
WaitForTurn ==
    /\ rq # <<>>
    /\ rq' = Tail(rq)
    /\ decoded' = IF JsonLoads(Head(rq)).ok THEN Append(decoded, JsonLoads(Head(rq)).msg)
                  ELSE decoded
    /\ UNCHANGED <<units, stream, reading, nzVars, extVars, namesVars, offVars, adVars, thVars>>

NextReader ==
    \/ ReaderTurn
    \/ WaitForTurn

SpecReader == InitReader /\ [][NextReader]_vars

\* the reader has seen EOF and _wait_for has taken everything off the queue
ReaderDone == ~reading /\ rq = <<>> /\ units # <<>>

(***************************************************************************)
(* C24: in the stdout reader a decode failure (unparseable Content-Length  *)
(* value, a body shorter than its declared length, or invalid JSON) drops  *)
(* only the offending frame: every well-formed message that follows it on  *)
(* the stream is still decoded and delivered, and the reader loop keeps    *)
(* running until end of stream.                                            *)
(***************************************************************************)
\* the well-formed frames with message m that follow a frame that fails to
\* decode
FramesAfterFailure(m) ==
    {k \in 1..Len(units) :
        /\ units[k].kind = "frame" /\ units[k].msg = m
        /\ \E j \in 1..(k - 1) : units[j].kind # "frame"}

\* how often message m was decoded
Decodings(m) == {i \in 1..Len(decoded) : decoded[i] = m}

\* every body on the stream is ASCII: its bytes are its characters
AsciiStream == \A k \in 1..Len(units) : units[k].msg.text = <<>>

\* stated for the streams of ASCII bodies, where the declared number of
\* bytes is the number of characters read
C24_FailureDropsOnlyItsFrame ==
    (ReaderDone /\ AsciiStream) =>
        \A m \in Msgs : Cardinality(Decodings(m)) >= Cardinality(FramesAfterFailure(m))

(***************************************************************************)
(* C25: for all well-formed length-prefixed frames, encode-then-decode     *)
(* reproduces the original message exactly: the message object the reader  *)
(* delivers for a frame equals the message object that was encoded.        *)
(***************************************************************************)
C25_FrameRoundTrip ==
    (ReaderDone /\ \A k \in 1..Len(units) : units[k].kind = "frame") =>
        decoded = [k \in 1..Len(units) |-> units[k].msg]

(***************************************************************************)
(* Spawning a server process: the environment it is started with.         *)
(* MCPAdapter._build_server_params builds the env handed to the stdio      *)
(* client; MCPOfficialManager.start calls subprocess.Popen.                *)
(***************************************************************************)

\* names of environment variables; PATH is the search path
EnvNames == {"PATH", "API_KEY", "MODE"}

\* values the client process may hold for a variable
InheritedValues == {"p", "q"}

\* values a config entry may give as an override: a string and a number
OverrideValues == <<JStr("v"), J("int", 7)>>

\* str(v)
PyStr(j) == IF j.t = "str" THEN j.v ELSE "7"

InitSpawn ==
    /\ tools = <<>>
    /\ function_name_map = EmptyDict
    /\ spec = <<>>
    /\ resolved = None
    /\ op = "init"
    /\ OfficialConstructed(<<>>)
    /\ AdapterConstructed
    /\ NormalizerIdle
    /\ ReaderIdle
    /\ \E D \in SUBSET EnvNames : \E f \in [D -> InheritedValues] : environ = f
    /\ \E D \in SUBSET EnvNames : \E f \in [D -> 1..Len(OverrideValues)] :
          entry_env = [k \in D |-> OverrideValues[f[k]]]
    /\ child_env = EmptyDict
    /\ spawner = "none"
    /\ MoreIdle

\* _build_server_params: env_vars = os.environ.copy(), then
\* env_vars[str(k)] = str(v) for every override
BuildServerParams ==
    /\ spawner = "none"
    /\ child_env' = [k \in (DOMAIN environ) \cup (DOMAIN entry_env) |->
                        IF k \in DOMAIN entry_env THEN PyStr(entry_env[k]) ELSE environ[k]]
    /\ spawner' = "adapter"
    /\ UNCHANGED <<environ, entry_env, moreVars, nzVars, rdVars, namesVars, offVars, adVars, thVars>>

\* subprocess.Popen(cmd, stdin=..., stdout=..., stderr=..., text=True,
\* bufsize=1): no env argument, so the child inherits os.environ as it is
PopenOfficial ==
    /\ spawner = "none"
    /\ child_env' = environ
    /\ spawner' = "official"
    /\ UNCHANGED <<environ, entry_env, moreVars, nzVars, rdVars, namesVars, offVars, adVars, thVars>>

NextSpawn ==
    \/ BuildServerParams
    \/ PopenOfficial

SpecSpawn == InitSpawn /\ [][NextSpawn]_vars

\* C26: the environment a server process is spawned with is the current
\* process environment overlaid with the entry's env overrides: every
\* override key has the override value (as a string), every inherited
\* variable not named by an override keeps its inherited value, and there
\* is no other variable.
C26_EnvOverlay ==
    spawner # "none" =>
        /\ DOMAIN child_env = (DOMAIN environ) \cup (DOMAIN entry_env)
        /\ \A k \in DOMAIN entry_env :
              k \in DOMAIN child_env /\ child_env[k] = PyStr(entry_env[k])
        /\ \A k \in (DOMAIN environ) \ (DOMAIN entry_env) :
              k \in DOMAIN child_env /\ child_env[k] = environ[k]

(***************************************************************************)
(* SpecManagers: a client program that drives one of the two managers,     *)
(* MCPOfficialManager or MCPAdapter, from the same configuration.          *)
(***************************************************************************)
\* only the MCPOfficialManager has been called so far
AdapterUntouched == nAdOps = 0

\* only the MCPAdapter has been called so far
OfficialUntouched == nOps = 0

InitManagers == InitOfficial

NextManagers ==
    \/ AdapterUntouched /\ NextOfficial
    \/ OfficialUntouched /\ NextAdapter

SpecManagers == InitManagers /\ [][NextManagers]_vars

\* the config names the server, and no entry of that name has enabled: true
Configured(n) == \E i \in 1..Len(servers_config) : servers_config[i].name = n

NeverEnabled(n) ==
    \A i \in 1..Len(servers_config) :
        servers_config[i].name = n => ~servers_config[i].enabled

\* C27: a config entry without enabled: true is never spawned: in every
\* state, for a server name none of whose entries is enabled, there is no
\* handle or runtime, no process and no registry tool, in either manager.
C27_DisabledNeverSpawned ==
    \A n \in ServerNames :
        NeverEnabled(n) =>
            /\ n \notin DOMAIN servers
            /\ \A pid \in 1..Len(procs) : procs[pid].name # n
            /\ \A i \in 1..Len(tools) : tools[i].server # n
            /\ ~HasRuntime(_servers, n)
            /\ \A i \in 1..Len(_tools) : _tools[i].server # n

\* start() of the MCPAdapter has returned with a configuration that holds
\* a disabled entry next to an enabled one, whose runtime exists
C27_Witness ==
    /\ thr["main"].pc = "idle" /\ thr["main"].ret.op = "start"
    /\ thr["main"].ret.kind = "return"
    /\ \E n \in ServerNames : Configured(n) /\ NeverEnabled(n)
    /\ Len(_servers) > 0
    /\ Len(_tools) > 0

\* the processes of a name that run, and the runtimes held under a name
RunningProcs(n) ==
    {pid \in 1..Len(procs) : procs[pid].name = n /\ procs[pid].state = "running"}

RuntimesOf(n) == {k \in 1..Len(_servers) : _servers[k].name = n}

\* the config lists a name twice, at least once enabled
ListedTwice(n) ==
    \E i, j \in 1..Len(servers_config) :
        /\ i # j
        /\ servers_config[i].name = n /\ servers_config[j].name = n
        /\ servers_config[i].enabled

\* C28: in every state there is at most one runtime and at most one running
\* process per server name, and a running process is the one its name's
\* handle refers to: start() spawns only for an enabled entry whose name
\* has no runtime yet, also when the config lists the same name twice.
C28_OneRuntimePerName ==
    \A n \in ServerNames :
        /\ Cardinality(RuntimesOf(n)) <= 1
        /\ Cardinality(RunningProcs(n)) <= 1
        /\ \A pid \in RunningProcs(n) : n \in DOMAIN servers /\ servers[n].pid = pid
        /\ (Cardinality(RuntimesOf(n)) = 1 \/ n \in DOMAIN servers) => ~NeverEnabled(n)

\* a second start() of the MCPOfficialManager has returned with a config
\* that lists the running server's name twice
C28_Witness ==
    /\ pc = "idle" /\ ret.op = "start" /\ ret.kind = "return" /\ nOps = 2
    /\ \E n \in ServerNames : ListedTwice(n) /\ RunningProcs(n) # {}

\* C29: an MCPAdapter hosts exactly one background event loop thread,
\* started once per adapter lifetime: whatever start() calls are made, a
\* second loop (with its loop thread) is never created.
C29_SingleLoop == nLoops <= 1

\* the loop thread is about to run the callback rt.shutdown.set of runtime k
LoopSetsSignal(k) ==
    /\ _loop = "running"
    /\ ready # <<>>
    /\ Head(ready).kind = "set_shutdown"
    /\ Head(ready).name = _servers[k].name

\* in the loop's queue every rt.shutdown.set precedes every loop.stop
StopAfterSignals ==
    \A i, j \in 1..Len(ready) :
        (ready[i].kind = "set_shutdown" /\ ready[j].kind = "stop") => i < j

\* C30: a runtime's stop signal becomes set only in a step in which the
\* loop thread runs the scheduled callback rt.shutdown.set, never by a step
\* of the calling thread, and the request to stop the loop is queued after
\* the stop signals that shutdown() scheduled.
C30_SignalsSetOnLoop ==
    [][/\ \A k \in 1..Len(_servers) :
             (~_servers[k].shutdown /\ _servers'[k].shutdown) => LoopSetsSignal(k)
       /\ StopAfterSignals']_vars

\* shutdown() has scheduled its callbacks and the loop has set a stop
\* signal while loop.stop is still queued
C30_Witness ==
    /\ _closed
    /\ \E k \in 1..Len(_servers) : _servers[k].shutdown
    /\ \E j \in 1..Len(ready) : ready[j].kind = "stop"

\* the first start() of the MCPOfficialManager is between two of its steps
OfficialNegotiating == nOps = 1 /\ pc # "idle"

\* the first start() of the MCPAdapter waits for a runtime's started event;
\* the lock is free, so a reader gets self._tools as it stands
AdapterNegotiating == nAdOps = 1 /\ thr["main"].pc = "wait"

\* C31: the registry is rebuilt in one step after all startup waits have
\* resolved: while the first start() is still negotiating with a server,
\* the registry a reader sees holds no tool, so no partial catalog is
\* visible; stated for both managers.
C31_NoPartialCatalog ==
    /\ OfficialNegotiating => tools = <<>>
    /\ AdapterNegotiating => _tools = <<>>

\* the MCPAdapter half of C31 alone
AdapterNoPartialCatalog == AdapterNegotiating => _tools = <<>>

\* the caller thread is inside _aggregate_tools: it holds self._lock and
\* iterates the runtimes' tool maps
Aggregating == thr["main"].pc = "agg"

\* C32: a runtime's tool map is never changed by the loop thread while a
\* caller thread reads it: no step adds a tool to a runtime's map while
\* start() is inside _aggregate_tools, whose lock every access to the tool
\* maps and to the registry is to take.
C32_ToolMapUnderLock ==
    [][\A k \in 1..Len(_servers) :
          Aggregating => _servers'[k].tools = _servers[k].tools]_vars

\* the number of requests (messages with an id) written before position i
ReqsBefore(w, i) == Cardinality({j \in 1..(i - 1) : w[j].id # -1})

\* the wire of one server carries the ids 0, 1, 2, ... in write order, and
\* exactly the notifications carry no id
WireInOrder(w) ==
    \A i \in 1..Len(w) :
        IF w[i].method = "notifications/initialized"
        THEN w[i].id = -1
        ELSE w[i].id = ReqsBefore(w, i)

\* C33: requests to the same server appear on the wire in the order they
\* were issued: the ids of the requests written to one server's stdin are
\* 0, 1, 2, ... in write order, and a notification is written without an
\* id and does not consume one.
C33_WireOrder == \A pid \in 1..Len(procs) : WireInOrder(procs[pid].wire)

\* C33 for the requests of distinct ids only: the order alone
WireIncreasing(w) ==
    \A i, j \in 1..Len(w) : (i < j /\ w[i].id # -1 /\ w[j].id # -1) => w[i].id <= w[j].id

(***************************************************************************)
(* SpecTimeouts: the bounds the two managers put on their waits            *)
(***************************************************************************)
\* init_timeout: float = 6.0 of MCPAdapter.__init__
AdapterDefaultInitTimeout == 6

\* init_timeout: float = 5.0 of MCPOfficialManager.__init__
OfficialDefaultInitTimeout == 5

\* self._wait_for(handle, msg_id, 30.0) in MCPOfficialManager.call_tool
OfficialCallTimeout == 30

\* the largest init_timeout a manager is constructed with, in seconds
MaxInitTimeout == 40

InitTimeouts ==
    /\ tools = <<>>
    /\ function_name_map = EmptyDict
    /\ spec = <<>>
    /\ resolved = None
    /\ op = "init"
    /\ OfficialConstructed(<<>>)
    /\ AdapterConstructed
    /\ NormalizerIdle
    /\ ReaderIdle
    /\ SpawnIdle
    /\ ResolveIdle
    /\ ChatIdle
    /\ init_timeout \in 1..MaxInitTimeout
    /\ handshake_bound = 0
    /\ call_bound = 0
    /\ bounded_by = "none"

\* MCPAdapter: start() waits with asyncio.wait_for(rt.started.wait(),
\* timeout=self.init_timeout); call_tool waits in _run_coroutine_sync with
\* fut.result(timeout=self.init_timeout)
AdapterBounds ==
    /\ bounded_by = "none"
    /\ handshake_bound' = init_timeout
    /\ call_bound' = init_timeout
    /\ bounded_by' = "adapter"
    /\ UNCHANGED <<init_timeout, spVars, rsVars, chVars, nzVars, rdVars, namesVars, offVars, adVars, thVars>>

\* MCPOfficialManager: _initialize waits with
\* self._wait_for(handle, msg_id, self.init_timeout); call_tool waits with
\* self._wait_for(handle, msg_id, 30.0)
OfficialBounds ==
    /\ bounded_by = "none"
    /\ handshake_bound' = init_timeout
    /\ call_bound' = OfficialCallTimeout
    /\ bounded_by' = "official"
    /\ UNCHANGED <<init_timeout, spVars, rsVars, chVars, nzVars, rdVars, namesVars, offVars, adVars, thVars>>

NextTimeouts ==
    \/ AdapterBounds
    \/ OfficialBounds

SpecTimeouts == InitTimeouts /\ [][NextTimeouts]_vars

\* C34: the bound applied to a tool call is strictly longer than the
\* timeout applied to each handshake wait, for the default settings and for
\* every init_timeout the manager is constructed with.
C34_CallBoundLonger == bounded_by # "none" => call_bound > handshake_bound

(***************************************************************************)
(* SpecClients: a client program that drives one of the two managers       *)
(* through start(), call_tool() and shutdown().                            *)
(***************************************************************************)
NextClients ==
    \/ AdapterUntouched /\ NextCalls
    \/ OfficialUntouched /\ NextAdapter

SpecClients == InitCalls /\ [][NextClients]_vars

\* this step is the return of a call_tool whose wait timed out
OfficialTimeoutStep ==
    pc = "call_wait" /\ pc' = "idle" /\ ret'.op = "call" /\ ret'.err = "Timeout"

AdapterTimeoutStep(t) ==
    /\ thr[t].pc = "call_wait" /\ thr[t].fut \in {"queued", "sent"}
    /\ thr'[t].pc = "idle"

\* C35: a tool call that times out changes nothing but the caller's return
\* value: in the step that returns the timeout error no process changes its
\* state, the server table, the registry and the exposed-name map are
\* unchanged; and a handle leaves the server table only in shutdown().
C35_TimeoutFrame ==
    [][/\ OfficialTimeoutStep =>
             /\ servers' = servers
             /\ Len(procs') = Len(procs)
             /\ \A pid \in 1..Len(procs) : procs'[pid].state = procs[pid].state
             /\ tools' = tools
             /\ function_name_map' = function_name_map
       /\ \A t \in Threads : AdapterTimeoutStep(t) =>
             /\ _servers' = _servers
             /\ _tools' = _tools
             /\ _loop' = _loop
       /\ (DOMAIN servers) \ (DOMAIN servers') # {} => ret'.op = "shutdown"
       /\ Len(_servers') >= Len(_servers)]_vars

\* call_tool of the MCPOfficialManager has returned the timeout error; the
\* server it called is still in the table, runs, and its tool is registered
C35_Witness ==
    /\ pc = "idle" /\ ret.op = "call" /\ ret.err = "Timeout"
    /\ Len(calls) > 0
    /\ LET c == calls[Len(calls)] IN
       /\ c.err = "Timeout"
       /\ c.server \in DOMAIN servers
       /\ procs[servers[c.server].pid].state = "running"
       /\ \E i \in 1..Len(tools) : tools[i].server = c.server

\* the server has written its reply to the tools/call request with this id
Answered(id) ==
    /\ \E i \in 1..Len(procs[1].wire) : procs[1].wire[i].id = id
    /\ WireIndexOf(1, id) \notin procs[1].pending
    /\ procs[1].state = "running"

\* the requests on the server's wire carry pairwise distinct ids
WireIdsDistinct ==
    \A i, j \in 1..Len(procs[1].wire) :
        (procs[1].wire[i].id # -1 /\ procs[1].wire[i].id = procs[1].wire[j].id) => i = j

\* C36: when two caller threads have tool calls pending on the same server
\* and the server replies to both, each caller receives the reply carrying
\* its own request id: a call_tool never returns the timeout error when the
\* server has already written the reply to its request (stated for requests
\* that carry distinct ids).
C36_OwnReplyDelivered ==
    [][\A t \in Callers :
          (/\ WireIdsDistinct
           /\ callers[t].pc = "wait"
           /\ callers'[t].result = "timeout") => ~Answered(callers[t].msg_id)]_vars

(***************************************************************************)
(* SpecResolve: the executable _build_server_params puts into the server   *)
(* parameters, in mcp_client.py and in mcp_client_adapter.py               *)
(***************************************************************************)
\* entry.get("command", "python")
EntryCommands == {"python", "python3", "node"}

\* a venv root (entry["venv"] or $MCP_VENV): not set, or set to a directory
\* that holds bin/python, holds only Scripts/python.exe, or holds neither
VenvStates == {"unset", "posix", "win", "empty"}

\* $MCP_PYTHON: not set, or set to a path that exists or does not exist
PythonStates == {"unset", "exists", "missing"}

\* _venv_python(root) for a root that is set: the interpreter of the venv,
\* or None
VenvPython(which, st) ==
    IF st = "posix" THEN which \o "/bin/python"
    ELSE IF st = "win" THEN which \o "/Scripts/python.exe"
    ELSE None

GenericPython(cmd) == cmd \in {"python", "python3"}

\* resolved_cmd of _build_server_params; mcp_client.py and
\* mcp_client_adapter.py hold the same statements
ResolveCmd(e) ==
    IF e.MCP_PYTHON = "exists" THEN "$MCP_PYTHON"
    ELSE IF e.venv # "unset" /\ GenericPython(e.command)
    THEN IF VenvPython("venv", e.venv) # None THEN VenvPython("venv", e.venv) ELSE e.command
    ELSE IF e.venv = "unset" /\ e.MCP_VENV # "unset" /\ GenericPython(e.command)
    THEN IF VenvPython("$MCP_VENV", e.MCP_VENV) # None
         THEN VenvPython("$MCP_VENV", e.MCP_VENV) ELSE e.command
    ELSE e.command

InitResolve ==
    /\ tools = <<>>
    /\ function_name_map = EmptyDict
    /\ spec = <<>>
    /\ resolved = None
    /\ op = "init"
    /\ OfficialConstructed(<<>>)
    /\ AdapterConstructed
    /\ NormalizerIdle
    /\ ReaderIdle
    /\ SpawnIdle
    /\ TimeoutsIdle
    /\ ChatIdle
    /\ entry_cmd \in [command : EntryCommands, venv : VenvStates,
                      MCP_PYTHON : PythonStates, MCP_VENV : VenvStates]
    /\ resolved_cmd = None
    /\ resolver = "none"

BuildParamsClient ==
    /\ resolver = "none"
    /\ resolved_cmd' = ResolveCmd(entry_cmd)
    /\ resolver' = "mcp_client"
    /\ UNCHANGED <<entry_cmd, tmVars, spVars, chVars, nzVars, rdVars, namesVars, offVars, adVars, thVars>>

BuildParamsClientAdapter ==
    /\ resolver = "none"
    /\ resolved_cmd' = ResolveCmd(entry_cmd)
    /\ resolver' = "mcp_client_adapter"
    /\ UNCHANGED <<entry_cmd, tmVars, spVars, chVars, nzVars, rdVars, namesVars, offVars, adVars, thVars>>

NextResolve ==
    \/ BuildParamsClient
    \/ BuildParamsClientAdapter

SpecResolve == InitResolve /\ [][NextResolve]_vars

\* the executable of the stated precedence: the first of MCP_PYTHON, the
\* per-server venv and MCP_VENV that is set and whose interpreter exists
FirstExisting(e) ==
    IF e.MCP_PYTHON = "exists" THEN "$MCP_PYTHON"
    ELSE IF e.venv \in {"posix", "win"} THEN VenvPython("venv", e.venv)
    ELSE IF e.MCP_VENV \in {"posix", "win"} THEN VenvPython("$MCP_VENV", e.MCP_VENV)
    ELSE e.command

\* C37: _build_server_params resolves the executable with the precedence
\* MCP_PYTHON > per-server venv > MCP_VENV > original command: the first of
\* these that is set and whose interpreter exists is used, and the
\* configured command is kept only when none of them yields an existing
\* interpreter; stated for the entries whose command is python or python3.
C37_ResolvePrecedence ==
    (resolver # "none" /\ GenericPython(entry_cmd.command)) =>
        resolved_cmd = FirstExisting(entry_cmd)

\* this step is an invocation of start() on the MCPAdapter
StartInvoked ==
    /\ thr["main"].pc = "idle"
    /\ nAdOps' = nAdOps + 1
    /\ thr'["aux"] = thr["aux"]
    /\ \/ thr'["main"].pc = "wait"
       \/ thr'["main"].pc = "idle" /\ thr'["main"].ret.op = "start"

\* C38: an MCPAdapter is not restartable: once shutdown() has been called,
\* every start() raises RuntimeError, spawns no server, creates no loop
\* thread and leaves the registry unchanged.
C38_NotRestartable ==
    [][(StartInvoked /\ _closed) =>
          /\ thr'["main"].pc = "idle"
          /\ thr'["main"].ret.op = "start" /\ thr'["main"].ret.kind = "raise"
          /\ UNCHANGED <<_loop, nLoops, ready, _servers, _tools>>]_vars

\* start() has raised on an adapter that was started and then shut down
C38_Witness ==
    /\ _closed
    /\ thr["main"].pc = "idle"
    /\ thr["main"].ret.op = "start" /\ thr["main"].ret.kind = "raise"
    /\ Len(_servers) > 0

(***************************************************************************)
(* The tool-call loop of the chat front ends: chat_client.py (terminal)    *)
(* and streamlit_app.py.  A model reply is a sequence of tool calls, empty *)
(* for a final answer; the loop resolves each function name, calls the     *)
(* tool and appends the tool message, then asks the model again.           *)
(***************************************************************************)
\* max_tool_rounds = 4  # safety cap
max_tool_rounds == 4

\* how many model requests a run makes
MaxRequests == 3

\* how many tool calls one model reply holds
MaxToolCalls == 2

FrontEnds == {"chat_client", "streamlit_app"}

\* the function names a model reply may hold: one exposed by
\* build_openai_tools_spec, one made up by the model
FunctionNames == {"b", "made_up"}

\* tc.id: the model gives every tool call an id of its own
CallId(request, position) == (request - 1) * MaxToolCalls + position

\* a message of the conversation; tool_calls is empty and tool_call_id is 0
\* where the dict has no such key
Message(role, tcs, id, name) ==
    [role |-> role, tool_calls |-> tcs, tool_call_id |-> id, name |-> name]

\* the function names of msg.tool_calls: none for a final answer
Replies ==
    UNION {[1..n -> FunctionNames] : n \in 0..MaxToolCalls}

ToolCallsOf(request, names) ==
    [j \in 1..Len(names) |-> [id |-> CallId(request, j), name |-> names[j]]]

\* the manager has started and built its specification: function_name_map
\* holds the exposed name; the system prompt is in the conversation
InitChat ==
    /\ tools = <<Meta("a", "b")>>
    /\ function_name_map = DictSet(EmptyDict, "b", Qualified("a", "b"))
    /\ spec = <<>>
    /\ resolved = None
    /\ op = "init"
    /\ OfficialConstructed(<<>>)
    /\ AdapterConstructed
    /\ NormalizerIdle
    /\ ReaderIdle
    /\ SpawnIdle
    /\ TimeoutsIdle
    /\ ResolveIdle
    /\ conversation = <<Message("system", <<>>, 0, None)>>
    /\ messages = <<>>
    /\ chat_pc = "input"
    /\ tool_calls = <<>>
    /\ tc_idx = 0
    /\ used_tools = 0
    /\ nRequests = 0
    /\ ui \in FrontEnds

chatFrame == <<namesVars, offVars, adVars, thVars, nzVars, rdVars, spVars, tmVars, rsVars>>

\* the user's line: conversation.append({'role': 'user', ...}); used_tools = 0.
\* The session state of streamlit_app keeps the conversation after a run
\* that raised; the process of chat_client has ended.
UserInput ==
    /\ \/ chat_pc \in {"input", "answered"}
       \/ chat_pc = "raised" /\ ui = "streamlit_app"
    /\ nRequests < MaxRequests
    /\ conversation' = Append(conversation, Message("user", <<>>, 0, None))
    /\ used_tools' = 0
    /\ chat_pc' = "request"
    /\ UNCHANGED <<messages, tool_calls, tc_idx, nRequests, ui, chatFrame>>

\* client.chat.completions.create(messages=conversation, ...) and the
\* branch on msg.tool_calls and used_tools < max_tool_rounds
ModelRequest(names) ==
    /\ chat_pc = "request"
    /\ nRequests < MaxRequests
    /\ messages' = conversation
    /\ nRequests' = nRequests + 1
    /\ IF names # <<>> /\ used_tools < max_tool_rounds
       THEN /\ conversation' = Append(conversation,
                   Message("assistant", ToolCallsOf(nRequests + 1, names), 0, None))
            /\ tool_calls' = ToolCallsOf(nRequests + 1, names)
            /\ tc_idx' = 1
            /\ chat_pc' = "tools"
       ELSE /\ conversation' = Append(conversation, Message("assistant", <<>>, 0, None))
            /\ tool_calls' = <<>>
            /\ tc_idx' = 0
            /\ chat_pc' = "answered"
    /\ UNCHANGED <<used_tools, ui, chatFrame>>

\* the tool message of a tool call: 'tool_call_id': tc.id, 'role': 'tool'
ToolMessage(tc) == Message("tool", <<>>, tc.id, tc.name)

\* one pass of "for tc in msg.tool_calls".  chat_client: a name that does
\* not resolve is warned about and skipped (continue).  streamlit_app: its
\* tool_result is {"error": "Could not resolve tool ..."} and the tool
\* message is appended.  The call, its sanitising and json.dumps of the
\* payload are outside any try: an exception there leaves the loop.
ExecuteToolCall(outcome) ==
    /\ chat_pc = "tools"
    /\ tc_idx <= Len(tool_calls)
    /\ IF DictGet(function_name_map, tool_calls[tc_idx].name) = None
       THEN /\ outcome = "result"
            /\ IF ui = "chat_client"
               THEN UNCHANGED <<conversation, used_tools>>
               ELSE /\ conversation' = Append(conversation, ToolMessage(tool_calls[tc_idx]))
                    /\ used_tools' = used_tools + 1
            /\ tc_idx' = tc_idx + 1
            /\ UNCHANGED chat_pc
       ELSE IF outcome = "raise"
       THEN /\ chat_pc' = "raised"
            /\ UNCHANGED <<conversation, used_tools, tc_idx>>
       ELSE /\ conversation' = Append(conversation, ToolMessage(tool_calls[tc_idx]))
            /\ used_tools' = used_tools + 1
            /\ tc_idx' = tc_idx + 1
            /\ UNCHANGED chat_pc
    /\ UNCHANGED <<messages, tool_calls, nRequests, ui, chatFrame>>

\* after the for loop: chat_client continues with the next model request
\* in both branches; streamlit_app breaks once used_tools >= max_tool_rounds
ToolLoopEnd ==
    /\ chat_pc = "tools"
    /\ tc_idx > Len(tool_calls)
    /\ chat_pc' = IF ui = "streamlit_app" /\ used_tools >= max_tool_rounds
                  THEN "answered" ELSE "request"
    /\ UNCHANGED <<conversation, messages, tool_calls, tc_idx, used_tools, nRequests, ui,
                   chatFrame>>

NextChat ==
    \/ UserInput
    \/ \E names \in Replies : ModelRequest(names)
    \/ \E outcome \in {"result", "raise"} : ExecuteToolCall(outcome)
    \/ ToolLoopEnd

SpecChat == InitChat /\ [][NextChat]_vars

\* the tool call j of message i has a tool message with its id after it
AnsweredIn(msgs, i, j) ==
    \E k \in (i + 1)..Len(msgs) :
        msgs[k].role = "tool" /\ msgs[k].tool_call_id = msgs[i].tool_calls[j].id

AllAnswered(msgs) ==
    \A i \in 1..Len(msgs) : \A j \in 1..Len(msgs[i].tool_calls) : AnsweredIn(msgs, i, j)

\* C39: in the terminal chat loop, every tool call of an assistant message
\* appended to the conversation has a tool message with the same
\* tool_call_id in the messages of the next model request, a tool call whose
\* function name does not resolve included.
C39_ToolCallsAnswered ==
    ui = "chat_client" => AllAnswered(messages)

=============================================================================
